---- MODULE Spec2Model ----
(***************************************************************************)
(* Model of the SPEAD capture readers of ska-low-csp-testware              *)
(* (spead.read_pcap_file and the generator spead2_util.read_pcap_file), of *)
(* the visitors that consume the heaps and of the PcapFile load task       *)
(* (_load) that runs the reader on a worker thread while another thread    *)
(* may set the task abort event.                                           *)
(***************************************************************************)
EXTENDS Integers, Sequences, FiniteSets, TLC

\* Longest capture (number of heaps the stream yields) that is explored.
MaxHeaps == 3
\* Longest visitor list handed to a direct call of read_pcap_file.
MaxVisitors == 2

None == "None"
\* A missing cell of a pandas.DataFrame (NaN).
Null == -1

(***************************************************************************)
(* The capture.  A heap is what spead2 yields: its two stream-control      *)
(* flags, whether ItemGroup.update can decode it, and its items.           *)
(***************************************************************************)
HeapKinds ==
    { [sos |-> TRUE,  eos |-> FALSE, ok |-> TRUE,  items |-> [a |-> 1]],
      [sos |-> TRUE,  eos |-> FALSE, ok |-> TRUE,  items |-> [a |-> 2, b |-> 9]],
      [sos |-> FALSE, eos |-> FALSE, ok |-> TRUE,  items |-> [Corre |-> 5]],
      [sos |-> FALSE, eos |-> FALSE, ok |-> FALSE, items |-> [Corre |-> 5]],
      [sos |-> FALSE, eos |-> TRUE,  ok |-> TRUE,  items |-> [ctrl |-> 0]],
      [sos |-> TRUE,  eos |-> TRUE,  ok |-> TRUE,  items |-> [ctrl |-> 0]] }

\* The heaps of a capture in file order; cnt numbers them (Heap.cnt).
Capture(kinds) ==
    [i \in 1..Len(kinds) |->
        [cnt |-> i, sos |-> kinds[i].sos, eos |-> kinds[i].eos,
         ok |-> kinds[i].ok, items |-> kinds[i].items]]

Files == UNION { { Capture(k) : k \in [1..n -> HeapKinds] } : n \in 0..MaxHeaps }

(***************************************************************************)
(* Visitors.  One record shape serves both visitor classes; a class only   *)
(* touches its own fields.                                                 *)
(***************************************************************************)
NewVisitor(kind) ==
    [kind |-> kind,
     start_of_stream_heap_count |-> 0, data_heap_count |-> 0,
     end_of_stream_heap_count |-> 0,
     headers |-> <<>>, heap_count |-> 0]

\* Mutant of ExtractVisit: visit_data_heap forgets to count the heap.
ExtractVisit_DataNotCounted(vis, method, heap) ==
    IF method = "visit_start_of_stream_heap"
    THEN [vis EXCEPT !.headers = Append(@, [key \in DOMAIN heap.items |-> heap.items[key]]),
                     !.heap_count = @ + 1]
    ELSE IF method = "visit_data_heap" THEN vis
    ELSE [vis EXCEPT !.heap_count = @ + 1]

\* Mutant of ExtractVisit: the row is inserted at the head of the list.
ExtractVisit_Prepend(vis, method, heap) ==
    IF method = "visit_start_of_stream_heap"
    THEN [vis EXCEPT !.headers = <<[key \in DOMAIN heap.items |-> heap.items[key]]>> \o @,
                     !.heap_count = @ + 1]
    ELSE [vis EXCEPT !.heap_count = @ + 1]

\* _ExtractMetadata: the three visit methods.
ExtractVisit(vis, method, heap) ==
    IF method = "visit_start_of_stream_heap"
    THEN [vis EXCEPT !.headers = Append(@, [key \in DOMAIN heap.items |-> heap.items[key]]),
                     !.heap_count = @ + 1]
    ELSE [vis EXCEPT !.heap_count = @ + 1]

\* _HeapCounter of the test suite: the three visit methods.
CounterVisit(vis, method, heap) ==
    CASE method = "visit_start_of_stream_heap" ->
            [vis EXCEPT !.start_of_stream_heap_count = @ + 1]
      [] method = "visit_data_heap" ->
            [vis EXCEPT !.data_heap_count = @ + 1]
      [] method = "visit_end_of_stream_heap" ->
            [vis EXCEPT !.end_of_stream_heap_count = @ + 1]

Visit(vis, method, heap) ==
    IF vis.kind = "ExtractMetadata" THEN ExtractVisit(vis, method, heap)
    ELSE CounterVisit(vis, method, heap)

\* pandas.DataFrame(list of dicts): one row per dict, the columns are the
\* union of the keys, a cell a row has no key for is NaN.
DataFrame(headers) ==
    LET columns == UNION { DOMAIN headers[i] : i \in 1..Len(headers) }
    IN  [columns |-> columns,
         rows |-> [i \in 1..Len(headers) |->
                     [c \in columns |->
                        IF c \in DOMAIN headers[i] THEN headers[i][c] ELSE Null]]]

\* _ExtractMetadata.metadata
Metadata(vis) ==
    [heap_count |-> vis.heap_count, spead_headers |-> DataFrame(vis.headers)]

\* Mutant of VisitorMethod: the end-of-stream test comes first.
VisitorMethod_EndOfStreamFirst(heap) ==
    IF heap.eos THEN "visit_end_of_stream_heap"
    ELSE IF heap.sos THEN "visit_start_of_stream_heap"
    ELSE "visit_data_heap"

\* Mutant of VisitorMethod: the end-of-stream branch is missing.
VisitorMethod_NoEndOfStream(heap) ==
    IF heap.sos THEN "visit_start_of_stream_heap"
    ELSE "visit_data_heap"

\* read_pcap_file: which visitor method a heap is handed to.
VisitorMethod(heap) ==
    IF heap.sos THEN "visit_start_of_stream_heap"
    ELSE IF heap.eos THEN "visit_end_of_stream_heap"
    ELSE "visit_data_heap"

VARIABLES
    file,           \* the heaps the stream yields for the PCAP file
    fileExists,     \* whether the PCAP file can be opened
    impl,           \* which PcapFileComponentManager: "device" | "component_manager"
    caller,         \* who called read_pcap_file: "load" | "direct" | "util"
    pc,             \* position of the reading thread
    visitors,       \* the visitors list
    hasEvent,       \* task_abort_event is not None
    abort_event,    \* task_abort_event.is_set()
    pos,            \* heaps the stream has yielded so far
    heap_number,    \* read_pcap_file's heap_number
    v,              \* index of the visitor being called
    stream,         \* "none" | "open" | "stopped"
    exc,            \* exception in flight
    result,         \* what the caller of read_pcap_file got
    finished_count, \* the count of the 'Finished reading' log line
    events,         \* task_callback / _update_component_state calls of the load
    dev_metadata,   \* PcapFile._metadata: <<>> is None
    dev_fault,      \* component state 'fault'
    calls,          \* history: per visitor, the calls it received
    abortAt,        \* history: where the reader was when the event was set
    metaAtStart,    \* history: PcapFile._metadata when the load started
    faultAtStart,   \* history: component state 'fault' when the load started
    lastCompleted   \* history: the metadata of the last load that reported COMPLETED

\* _read_visibilities and the channel id decoding
VARIABLES
    vfile,          \* the heaps the generator would yield to _read_visibilities
    vpc,            \* "off" | "call" | "body" | "returned" | "raised" | "decode" | "decoded"
    vpos,           \* heaps the loop body has been applied to
    headers,        \* _read_visibilities' headers
    averaged_data,  \* _read_visibilities' averaged_data, in insertion order
    vexc,           \* exception that left _read_visibilities
    vresult,        \* the VisibilityData returned: <<>> is none
    counter,        \* a heap counter (heap.cnt)
    channel,        \* the channel id decoded from counter
    vlog            \* history: the loop state after each heap

visVars == <<vfile, vpc, vpos, headers, averaged_data, vexc, vresult, counter,
             channel, vlog>>

\* the polling component managers
VARIABLES
    comp,           \* which component manager is polling: "PcapFile" | "Monitor" | "Watcher"
    pstate,         \* the poller's state: "STOPPED" | "POLLING"
    ppc,            \* the polling thread: "stopped_wait" | "polling" | "poll_wait"
    comm,           \* the communication state last reported
    cstate,         \* the component state (_component_state)
    entries,        \* pcap_dir: per name "absent" | "file" | "dir"
    nested,         \* whether the directory entry holds a .pcap file of its own
    order,          \* the order in which os.listdir lists the names
    fstat,          \* what stat() of the PCAP file returns, one of Stats
    attrs,          \* the PcapFile device's _file_size and _file_time_modified
    dpc,            \* position of a delete() call
    lastPoll,       \* history: the last poll, <<>> before the first
    changedSince,   \* history: what changed in pcap_dir since the last poll
    afterDelete,    \* history: "none" | "quiet" | "restarted"
    polledAfterDelete, \* history: a poll ran after delete() returned
    stateAtDelete,  \* history: the device state when delete() was called
    pollingAtDelete \* history: the poller was polling when delete() was called

pollVars == <<comp, pstate, ppc, comm, cstate, entries, nested, order, fstat, attrs, dpc,
              lastPoll, changedSince, afterDelete, polledAfterDelete, stateAtDelete, pollingAtDelete>>

loadHist == <<faultAtStart, lastCompleted>>

\* the PcapFileMonitor device
VARIABLES
    mon_files,      \* PcapFileMonitor._files
    devices,        \* the PcapFile devices defined in the TANGO database, each
                    \* with its name and the file its pcap_file_path names
    monLast         \* history: the last `files` update processed

monVars == <<mon_files, devices, monLast>>

\* the PcapReader device
VARIABLES
    disk,                \* pcap_dir: per relative file name 0 (absent) or its stat
    test_mode,           \* the test_mode device property
    rphase,              \* "new" | "init" | "on" | "reinit" | "failed"
    scan,                \* init_device: what rglob has yet to yield
    thr,                 \* the handler each thread is in and its local variables
    observing,           \* the file observer is alive
    queue,               \* the file-system events the observer has yet to dispatch
    file_name_mapping,   \* _file_name_mapping, in insertion order
    dyn_attrs,           \* the dynamic attributes the device has
    dynamic_attr_data,   \* _dynamic_attr_data: per attribute name its value, or Absent
    tasks,               \* the ReadVisibilityData tasks of the executor
    atInit               \* history: pcap_dir when init_device scanned it and
                         \* the files changed since, while init_device runs

rdrVars == <<disk, test_mode, rphase, scan, thr, observing, queue, file_name_mapping,
             dyn_attrs, dynamic_attr_data, tasks, atInit>>

\* the TaskExecutor of a PcapFileComponentManager and the threads that call load()
VARIABLES
    max_queue_size,   \* _max_queue_size
    work_queue,       \* the number of tasks in the executor's input queue
    running,          \* the worker (max_workers = 1) is running a task
    loaders           \* per calling thread: its position in _submit_task, the
                      \* input_queue_size it read, what its last call returned

subVars == <<max_queue_size, work_queue, running, loaders>>

\* the VisSpeadUnpacker device
VARIABLES
    unp_metadata,     \* _metadata: per file hash <<>> (no key) or its DataFrame
    unp_tasks,        \* per file name, the _unpack tasks that await the executor
    unp_attrs,        \* the dynamic attributes the device has
    unp_hist          \* history, per file name: the identifiers Unpack returned,
                      \* the tasks it created, the add_attribute calls made

unpVars == <<unp_metadata, unp_tasks, unp_attrs, unp_hist>>

\* the on, standby, off and reset operations of a component manager
VARIABLES
    cmd_last          \* the last such call: its arguments, what it returned and
                      \* the calls it made to task_callback; <<>> before the first

cmdVars == <<subVars, unpVars, cmd_last>>

devVars == <<monVars, rdrVars, cmdVars>>

otherVars == <<visVars, pollVars, devVars, loadHist>>

readerVars == <<file, fileExists, impl, caller, pc, visitors, hasEvent, abort_event,
                pos, heap_number, v, stream, exc, result, finished_count, events,
                dev_metadata, dev_fault, calls, abortAt, metaAtStart,
                faultAtStart, lastCompleted>>

vars == <<readerVars, visVars, pollVars, devVars>>

NotAborted == [set |-> FALSE, k |-> 0, boundary |-> FALSE]

\* No _read_visibilities call and no decoding under way.
VisOff ==
    /\ vfile = <<>>
    /\ vpc = "off"
    /\ vpos = 0
    /\ headers = <<>>
    /\ averaged_data = <<>>
    /\ vexc = None
    /\ vresult = <<>>
    /\ counter = [hi |-> 0, mid |-> 0, lo |-> 0]
    /\ channel = -1
    /\ vlog = <<>>

\* File names, as the characters they are made of.
NameA == <<"a", ".", "p", "c", "a", "p">>
NameB == <<"b", ".", "p", "c", "a", "p">>
NameT == <<"a", ".", "t", "x", "t">>
NameD == <<"d", ".", "p", "c", "a", "p">>
NameC == <<"c", ".", "p", "c", "a", "p">>
Names == {NameA, NameB, NameT, NameD}
PcapDir == <<"/", "t">>

\* What stat() can return for the PCAP file: st_size and st_mtime_ns.  A
\* write changes the modification time and may leave the size as it was; the
\* file is created empty.
Stats == 1..4
StSize(s) == s \div 2
StMtime(s) == s

\* The component state a component manager is constructed with.
InitialState ==
    [power |-> "UNKNOWN", fault |-> "None", files |-> <<>>,
     file_size |-> 0, file_time_modified |-> 0]

\* A polling component manager that has not been started; pcap_dir is empty.
PollIdle ==
    /\ pstate = "STOPPED"
    /\ ppc = "stopped_wait"
    /\ comm = "DISABLED"
    /\ cstate = InitialState
    /\ entries = [n \in Names |-> "absent"]
    /\ nested = FALSE
    /\ fstat = 1
    /\ attrs = [file_size |-> 0, file_time_modified |-> 0]
    /\ dpc = "none"
    /\ lastPoll = <<>>
    /\ changedSince = [incl |-> FALSE, excl |-> FALSE]
    /\ afterDelete = "none"
    /\ polledAfterDelete = FALSE
    /\ stateAtDelete = "none"
    /\ pollingAtDelete = FALSE

\* No polling component manager.
PollOff ==
    /\ comp = None
    /\ order = <<NameA, NameB, NameT, NameD>>
    /\ PollIdle

\* No PcapFileMonitor device.
MonOff ==
    /\ mon_files = <<>>
    /\ devices = {}
    /\ monLast = <<>>

\* PcapReader names: a file in pcap_dir, one in a subdirectory, one that is
\* not a .pcap file.
NameNested == <<"d", "/", "c", ".", "p", "c", "a", "p">>
RdrNames == {<<"a", ".", "p", "c", "a", "p">>, NameNested, <<"a", ".", "t", "x", "t">>}

\* _attr_key: the SHA-1 digest of the file name, kept as a tag on the name
\* (injective, as far as the digest is).
AttrKey(file_name) == <<"sha1:">> \o file_name

\* f"{attr_prefix}_{attr_suffix}"
AttrName(attr_prefix, attr_suffix) == attr_prefix \o <<"_", attr_suffix>>
Suffixes == <<"data", "info">>
AllAttrNames == { AttrName(AttrKey(f), x) : f \in RdrNames, x \in {"data", "info"} }

Absent == <<>>
IdleThread ==
    [op |-> "idle", etype |-> None, file |-> <<>>, pc |-> "idle", attr_prefix |-> <<>>,
     file_info |-> 0, pushes |-> <<>>, before |-> <<>>, raised |-> None]

\* PcapReader.__init__: nothing mapped, no thread in a handler.
RdrIdle ==
    /\ scan = <<>>
    /\ thr = [t \in {"device", "observer"} |-> IdleThread]
    /\ observing = FALSE
    /\ queue = <<>>
    /\ file_name_mapping = <<>>
    /\ dyn_attrs = {}
    /\ dynamic_attr_data = [a \in AllAttrNames |-> Absent]
    /\ tasks = <<>>
    /\ atInit = <<>>

\* No PcapReader device.
RdrOff ==
    /\ disk = [n \in RdrNames |-> 0]
    /\ test_mode = None
    /\ rphase = "off"
    /\ RdrIdle

\* The threads that call load().
Loaders == {"t1", "t2"}
IdleLoader == [pc |-> "idle", input_queue_size |-> 0, ret |-> None]

\* No load() call and nothing queued.
SubOff ==
    /\ max_queue_size = 0
    /\ work_queue = 0
    /\ running = FALSE
    /\ loaders = [t \in Loaders |-> IdleLoader]

\* The file names Unpack is called with, and their SHA-1 digests.
UnpackNames == {NameA, NameB, NameC}
FileHash(file_name) == <<"sha1:">> \o file_name
FileHashes == { FileHash(f) : f \in UnpackNames }

\* No VisSpeadUnpacker device: nothing unpacked, no task.
UnpOff ==
    /\ unp_metadata = [h \in FileHashes |-> <<>>]
    /\ unp_tasks = [f \in UnpackNames |-> 0]
    /\ unp_attrs = {}
    /\ unp_hist = [f \in UnpackNames |-> [ids |-> {}, started |-> 0, added |-> 0]]

CmdOff == SubOff /\ UnpOff /\ cmd_last = <<>>

DevOff == MonOff /\ RdrOff /\ CmdOff

\* No read_pcap_file call under way and nothing loaded.
ReaderIdle ==
    /\ caller = None
    /\ pc = "idle"
    /\ visitors = <<>>
    /\ hasEvent = FALSE
    /\ abort_event = FALSE
    /\ pos = 0
    /\ heap_number = 0
    /\ v = 0
    /\ stream = "none"
    /\ exc = None
    /\ result = None
    /\ finished_count = -1
    /\ events = <<>>
    /\ dev_metadata = <<>>
    /\ dev_fault = FALSE
    /\ calls = <<>>
    /\ abortAt = NotAborted
    /\ metaAtStart = <<>>
    /\ faultAtStart = FALSE
    /\ lastCompleted = <<>>

Init ==
    /\ VisOff
    /\ PollOff
    /\ DevOff
    /\ file \in Files
    /\ fileExists \in BOOLEAN
    /\ impl \in {"device", "component_manager"}
    /\ ReaderIdle

\* Everything a call of read_pcap_file starts from.
BeginRead(c, vs, ev, start) ==
    /\ pc \in {"idle", "done"}
    /\ caller' = c
    /\ visitors' = vs
    /\ hasEvent' = ev
    /\ abort_event' = FALSE
    /\ pos' = 0
    /\ heap_number' = 0
    /\ v' = 0
    /\ stream' = "none"
    /\ exc' = None
    /\ result' = None
    /\ finished_count' = -1
    /\ calls' = IF vs = <<>> THEN << <<>> >> ELSE [i \in 1..Len(vs) |-> <<>>]
    /\ abortAt' = NotAborted
    /\ pc' = start

\* _load, up to the call of read_pcap_file.
StartLoad ==
    /\ BeginRead("load", <<NewVisitor("ExtractMetadata")>>, TRUE, "open")
    /\ events' = <<"IN_PROGRESS">>
    /\ metaAtStart' = dev_metadata
    /\ faultAtStart' = dev_fault
    /\ UNCHANGED <<visVars, pollVars, devVars, lastCompleted>>
    /\ UNCHANGED <<file, fileExists, impl, dev_metadata, dev_fault>>

\* A direct call of read_pcap_file, as in the test suite.
StartRead ==
    \E n \in 1..MaxVisitors, ev \in BOOLEAN :
        /\ BeginRead("direct", [i \in 1..n |-> NewVisitor("HeapCounter")], ev, "open")
        /\ events' = <<>>
        /\ UNCHANGED otherVars
        /\ UNCHANGED <<file, fileExists, impl, dev_metadata, dev_fault, metaAtStart>>

\* Where control goes when read_pcap_file returns.
Returned == IF caller = "load" THEN "load_check" ELSE "done"

\* read_pcap_file: create the stream and attach the file reader.
Open ==
    /\ pc = "open"
    /\ IF fileExists
       THEN /\ stream' = "open"
            /\ pc' = "next"
            /\ exc' = exc
       ELSE /\ exc' = "OpenError"
            /\ pc' = "raised"
            /\ stream' = stream
    /\ UNCHANGED otherVars
    /\ UNCHANGED <<file, fileExists, impl, caller, visitors, hasEvent, abort_event,
                   pos, heap_number, v, result, finished_count, events,
                   dev_metadata, dev_fault, calls, abortAt, metaAtStart>>

\* read_pcap_file: the loop head and item_group.update; observed is the
\* outcome of the abort check.
ReadLoopHead(observed) ==
    /\ pc = "next"
    /\ IF pos = Len(file)
       THEN /\ pc' = "after_loop"
            /\ UNCHANGED <<pos, heap_number, stream, result, exc, v>>
       ELSE /\ pos' = pos + 1
            /\ heap_number' = pos
            /\ IF observed
               THEN /\ stream' = "stopped"
                    /\ result' = "returned"
                    /\ pc' = Returned
                    /\ UNCHANGED <<exc, v>>
               ELSE IF ~file[pos + 1].ok
               THEN /\ exc' = "DecodeError"
                    /\ pc' = "raised"
                    /\ UNCHANGED <<stream, result, v>>
               ELSE /\ v' = 1
                    /\ pc' = "dispatch"
                    /\ UNCHANGED <<stream, result, exc>>
    /\ UNCHANGED otherVars
    /\ UNCHANGED <<file, fileExists, impl, caller, visitors, hasEvent, abort_event,
                   finished_count, events, dev_metadata, dev_fault, calls,
                   abortAt, metaAtStart>>

\* Mutant of NextHeap: the abort event is not looked at.
NextHeap_NoAbortCheck == ReadLoopHead(FALSE)

\* read_pcap_file: one turn of the loop up to the dispatch.
NextHeap == ReadLoopHead(hasEvent /\ abort_event)

\* The reader moves on to the next visitor, or to the next heap after the last.
Advance ==
    IF v < Len(visitors)
    THEN v' = v + 1 /\ pc' = pc
    ELSE v' = 0 /\ pc' = "next"

\* One call of a visitor method; raises says the visitor raised.
DeliverHeap(raises, heap, method) ==
        /\ calls' = [calls EXCEPT ![v] = Append(@, [method |-> method, heap |-> heap])]
        /\ IF raises
           THEN /\ exc' = "VisitorError"
                /\ pc' = "raised"
                /\ UNCHANGED <<visitors, v>>
           ELSE /\ visitors' = [visitors EXCEPT ![v] = Visit(@, method, heap)]
                /\ exc' = exc
                /\ Advance

\* Mutant of VisitorCall: the continue after the start-of-stream dispatch
\* is missing, the heap falls through to the data dispatch.
VisitorCall_NoContinue(raises) ==
    LET heap == file[pos]
        method == VisitorMethod(heap)
    IN  IF heap.sos /\ ~raises
        THEN /\ calls' = [calls EXCEPT ![v] =
                            @ \o << [method |-> method, heap |-> heap],
                                    [method |-> "visit_data_heap", heap |-> heap] >>]
             /\ visitors' = [visitors EXCEPT ![v] =
                               Visit(Visit(@, method, heap), "visit_data_heap", heap)]
             /\ exc' = exc
             /\ Advance
        ELSE DeliverHeap(raises, heap, method)

\* Mutant of VisitorCall: the abort event is also checked between visitors.
VisitorCall_AbortBetweenVisitors(raises) ==
    IF hasEvent /\ abort_event
    THEN /\ v' = 0
         /\ pc' = "next"
         /\ UNCHANGED <<calls, visitors, exc>>
    ELSE DeliverHeap(raises, file[pos], VisitorMethod(file[pos]))

\* read_pcap_file: the current heap is handed to visitor v.
VisitorCall(raises) ==
    DeliverHeap(raises, file[pos], VisitorMethod(file[pos]))

\* read_pcap_file: hand the current heap to the next visitor of the list.
Dispatch ==
    /\ pc = "dispatch"
    /\ \E raises \in (IF caller = "direct" THEN BOOLEAN ELSE {FALSE}) :
          VisitorCall(raises)
    /\ UNCHANGED otherVars
    /\ UNCHANGED <<file, fileExists, impl, caller, hasEvent, abort_event, pos,
                   heap_number, stream, result, finished_count, events,
                   dev_metadata, dev_fault, abortAt, metaAtStart>>

\* read_pcap_file: after the loop.
AfterLoop ==
    /\ pc = "after_loop"
    /\ stream' = "stopped"
    /\ finished_count' = heap_number + 1
    /\ result' = "returned"
    /\ pc' = Returned
    /\ UNCHANGED otherVars
    /\ UNCHANGED <<file, fileExists, impl, caller, visitors, hasEvent, abort_event,
                   pos, heap_number, v, exc, events, dev_metadata, dev_fault,
                   calls, abortAt, metaAtStart>>

\* An exception leaves read_pcap_file towards a direct caller.
Propagate ==
    /\ pc = "raised"
    /\ caller = "direct"
    /\ result' = exc
    /\ pc' = "done"
    /\ UNCHANGED otherVars
    /\ UNCHANGED <<file, fileExists, impl, caller, visitors, hasEvent, abort_event,
                   pos, heap_number, v, stream, exc, finished_count, events,
                   dev_metadata, dev_fault, calls, abortAt, metaAtStart>>

\* PcapFile._component_state_changed, as reached from _update_component_state.
ComponentStateChanged(fault, metadata) ==
    /\ dev_fault' = fault
    /\ dev_metadata' = IF metadata # <<>> THEN metadata ELSE dev_metadata

\* _Metadata.__eq__ as _update_component_state evaluates it (old != new): the
\* generated dataclass comparison compares the heap counts first and, when they
\* are equal, the two header DataFrames, whose truth value is ambiguous
\* (ValueError).  Against the initial None the comparison is by identity.
MetadataCompareRaises(old, new) ==
    /\ old # <<>>
    /\ old[1].heap_count = new.heap_count

\* _load: _update_component_state(metadata=..., fault=False) and the status
\* reports around it; a raise leaves the component state as it was.
UpdateMetadata(before, after) ==
    IF MetadataCompareRaises(dev_metadata, Metadata(visitors[1]))
    THEN /\ events' = events \o before
         /\ exc' = "ValueError"
         /\ pc' = "raised"
         /\ UNCHANGED <<dev_metadata, dev_fault, lastCompleted>>
    ELSE /\ ComponentStateChanged(FALSE, <<Metadata(visitors[1])>>)
         /\ lastCompleted' = IF "COMPLETED" \in {after[i] : i \in 1..Len(after)}
                             THEN <<Metadata(visitors[1])>> ELSE lastCompleted
         /\ events' = events \o before \o <<"update(metadata, fault=False)">> \o after
         /\ pc' = "done"
         /\ UNCHANGED exc

\* Mutant of LoadCheck: the return after the ABORTED report is missing.
LoadCheck_NoReturn ==
    /\ pc = "load_check"
    /\ UpdateMetadata(IF abort_event THEN <<"ABORTED">> ELSE <<>>, <<"COMPLETED">>)
    /\ UNCHANGED <<visVars, pollVars, devVars, faultAtStart>>
    /\ UNCHANGED <<file, fileExists, impl, caller, visitors, hasEvent, abort_event,
                   pos, heap_number, v, stream, result, finished_count,
                   calls, abortAt, metaAtStart>>

\* Mutant of LoadCheck: the metadata is published before the abort check.
LoadCheck_PublishFirst ==
    /\ pc = "load_check"
    /\ UpdateMetadata(<<>>, <<IF abort_event THEN "ABORTED" ELSE "COMPLETED">>)
    /\ UNCHANGED <<visVars, pollVars, devVars, faultAtStart>>
    /\ UNCHANGED <<file, fileExists, impl, caller, visitors, hasEvent, abort_event,
                   pos, heap_number, v, stream, result, finished_count,
                   calls, abortAt, metaAtStart>>

\* _load: after read_pcap_file returned.
LoadCheck ==
    /\ pc = "load_check"
    /\ IF abort_event
       THEN /\ events' = Append(events, "ABORTED")
            /\ pc' = "done"
            /\ UNCHANGED <<dev_metadata, dev_fault, exc, lastCompleted>>
       ELSE UpdateMetadata(<<>>, <<"COMPLETED">>)
    /\ UNCHANGED <<visVars, pollVars, devVars, faultAtStart>>
    /\ UNCHANGED <<file, fileExists, impl, caller, visitors, hasEvent, abort_event,
                   pos, heap_number, v, stream, result, finished_count,
                   calls, abortAt, metaAtStart>>

\* Mutant of LoadExcept: the fault flag is not raised.
LoadExcept_FaultUnset ==
    /\ pc = "raised"
    /\ caller = "load"
    /\ result' = IF result = None THEN exc ELSE result
    /\ events' = events \o <<"FAILED">>
    /\ pc' = "done"
    /\ UNCHANGED otherVars
    /\ UNCHANGED <<file, fileExists, impl, caller, visitors, hasEvent, abort_event,
                   pos, heap_number, v, stream, exc, finished_count,
                   dev_metadata, dev_fault, calls, abortAt, metaAtStart>>

\* _load: the except branch.
LoadExcept ==
    /\ pc = "raised"
    /\ caller = "load"
    /\ result' = IF result = None THEN exc ELSE result
    /\ ComponentStateChanged(TRUE, <<>>)
    /\ events' = events \o
          (IF impl = "device"
           THEN <<"FAILED", "update(fault=True)">>
           ELSE <<"update(fault=True)", "FAILED">>)
    /\ pc' = "done"
    /\ UNCHANGED otherVars
    /\ UNCHANGED <<file, fileExists, impl, caller, visitors, hasEvent, abort_event,
                   pos, heap_number, v, stream, exc, finished_count,
                   calls, abortAt, metaAtStart>>

(***************************************************************************)
(* spead2_util.read_pcap_file: an asynchronous generator.  Its body runs   *)
(* only while the consumer resumes it; calls[1] logs the heaps it yields.  *)
(***************************************************************************)
\* Calling the generator function: no line of its body runs yet.
UtilCall ==
    /\ BeginRead("util", <<>>, FALSE, "u_start")
    /\ events' = <<>>
    /\ UNCHANGED otherVars
    /\ UNCHANGED <<file, fileExists, impl, dev_metadata, dev_fault, metaAtStart>>

\* The generator body from the loop head to the next yield or to its end.
UtilLoop(hn) ==
    IF pos = Len(file)
    THEN /\ finished_count' = hn + 1
         /\ stream' = "stopped"
         /\ result' = "returned"
         /\ pc' = "done"
         /\ heap_number' = hn
         /\ UNCHANGED <<pos, exc, calls>>
    ELSE /\ pos' = pos + 1
         /\ heap_number' = hn + 1
         /\ finished_count' = finished_count
         /\ IF ~file[pos + 1].ok
            THEN /\ exc' = "DecodeError"
                 /\ result' = "DecodeError"
                 /\ stream' = "stopped"
                 /\ pc' = "done"
                 /\ calls' = calls
            ELSE /\ calls' = [calls EXCEPT ![1] =
                                Append(@, [method |-> "yield", heap |-> file[pos + 1]])]
                 /\ stream' = "open"
                 /\ pc' = "u_yield"
                 /\ UNCHANGED <<exc, result>>

\* The consumer asks for the next heap.
UtilResume ==
    /\ pc \in {"u_start", "u_yield"}
    /\ caller = "util"
    /\ IF pc = "u_start" /\ ~fileExists
       THEN /\ exc' = "OpenError"
            /\ result' = "OpenError"
            /\ pc' = "done"
            /\ UNCHANGED <<pos, heap_number, stream, finished_count, calls>>
       ELSE UtilLoop(heap_number)
    /\ UNCHANGED otherVars
    /\ UNCHANGED <<file, fileExists, impl, caller, visitors, hasEvent, abort_event,
                   v, events, dev_metadata, dev_fault, abortAt, metaAtStart>>

\* The consumer closes the generator while it is suspended at its yield.
UtilClose ==
    /\ pc = "u_yield"
    /\ caller = "util"
    /\ stream' = "stopped"
    /\ result' = "closed"
    /\ pc' = "done"
    /\ UNCHANGED otherVars
    /\ UNCHANGED <<file, fileExists, impl, caller, visitors, hasEvent, abort_event,
                   pos, heap_number, v, exc, finished_count, events,
                   dev_metadata, dev_fault, calls, abortAt, metaAtStart>>

\* Heaps that have been handed to every visitor.
FullyDispatched == IF pc = "dispatch" THEN pos - 1 ELSE pos

\* abort_commands, on another thread: the executor sets the abort event.
SetAbort ==
    /\ pc \in {"open", "next", "dispatch", "after_loop", "load_check", "raised"}
    /\ hasEvent
    /\ ~abort_event
    /\ abort_event' = TRUE
    /\ abortAt' = [set |-> TRUE, k |-> FullyDispatched,
                   boundary |-> (pc = "next" \/ (pc = "open" /\ fileExists))]
    /\ UNCHANGED otherVars
    /\ UNCHANGED <<file, fileExists, impl, caller, pc, visitors, hasEvent, pos,
                   heap_number, v, stream, exc, result, finished_count, events,
                   dev_metadata, dev_fault, calls, metaAtStart>>

Next ==
    \/ StartLoad
    \/ StartRead
    \/ Open
    \/ NextHeap
    \/ Dispatch
    \/ AfterLoop
    \/ Propagate
    \/ LoadCheck
    \/ LoadExcept
    \/ SetAbort
    \/ UtilCall
    \/ UtilResume
    \/ UtilClose

Spec == Init /\ [][Next]_vars

(***************************************************************************)
(* Successive loads of a PCAP file that changes between them, and the      *)
(* metadata attributes of the PcapFile device.                             *)
(***************************************************************************)
\* No load is running.
BetweenLoads == pc \in {"idle", "done"}

\* The capture is still being written: one more heap has reached the file.
Grow ==
    /\ BetweenLoads
    /\ fileExists
    /\ Len(file) < MaxHeaps
    /\ \E kind \in HeapKinds : file' = Capture([i \in 1..Len(file) + 1 |->
                                   IF i <= Len(file) THEN file[i] ELSE kind])
    /\ UNCHANGED otherVars
    /\ UNCHANGED <<fileExists, impl, caller, pc, visitors, hasEvent, abort_event,
                   pos, heap_number, v, stream, exc, result, finished_count, events,
                   dev_metadata, dev_fault, calls, abortAt, metaAtStart>>

\* The file is removed from disk, or put back.
RemoveFile ==
    /\ BetweenLoads
    /\ fileExists
    /\ fileExists' = FALSE
    /\ UNCHANGED otherVars
    /\ UNCHANGED <<file, impl, caller, pc, visitors, hasEvent, abort_event,
                   pos, heap_number, v, stream, exc, result, finished_count, events,
                   dev_metadata, dev_fault, calls, abortAt, metaAtStart>>

RestoreFile ==
    /\ BetweenLoads
    /\ ~fileExists
    /\ fileExists' = TRUE
    /\ UNCHANGED otherVars
    /\ UNCHANGED <<file, impl, caller, pc, visitors, hasEvent, abort_event,
                   pos, heap_number, v, stream, exc, result, finished_count, events,
                   dev_metadata, dev_fault, calls, abortAt, metaAtStart>>

\* Mutant of HasMetadata: a heap count of zero counts as no metadata.
HasMetadata_NonZero(metadata) == metadata # <<>> /\ metadata[1].heap_count # 0

\* PcapFile.heap_count / spead_headers: `if self._metadata`.
HasMetadata(metadata) == metadata # <<>>

\* DataFrame.to_json(): per column, the cells keyed by the row index, which
\* counts from 0; NaN becomes null.
ToJson(df) ==
    [c \in df.columns |-> [i \in 0..Len(df.rows) - 1 |-> df.rows[i + 1][c]]]

\* The attribute read methods: the value returned or the error raised.
ReadHeapCount ==
    IF HasMetadata(dev_metadata)
    THEN [raised |-> None, value |-> <<dev_metadata[1].heap_count>>]
    ELSE [raised |-> "ValueError: Metadata not available", value |-> <<>>]

ReadSpeadHeaders ==
    IF HasMetadata(dev_metadata)
    THEN [raised |-> None, value |-> <<ToJson(dev_metadata[1].spead_headers)>>]
    ELSE [raised |-> "ValueError: Metadata not available", value |-> <<>>]

ReloadNext ==
    \/ StartLoad
    \/ Open
    \/ NextHeap
    \/ Dispatch
    \/ AfterLoop
    \/ LoadCheck
    \/ LoadExcept
    \/ SetAbort
    \/ Grow
    \/ RemoveFile
    \/ RestoreFile

SpecReload == Init /\ [][ReloadNext]_vars

(***************************************************************************)
(* low_cbf_vis._read_visibilities: the channel id of a data heap, the      *)
(* per-channel accumulator and the result.                                 *)
(***************************************************************************)
\* Longest capture handed to the loop of _read_visibilities.
MaxVisHeaps == 3

\* A heap counter (Heap.cnt, 48 bits) is held as three 16-bit limbs, most
\* significant first: cnt = hi * 2^32 + mid * 2^16 + lo.
Limbs == {0, 1, 255, 256, 65535}
Counters == [hi : Limbs, mid : Limbs, lo : Limbs]

\* int.to_bytes(6, byteorder="big")
ToBytes6(c) ==
    <<c.hi \div 256, c.hi % 256, c.mid \div 256, c.mid % 256,
      c.lo \div 256, c.lo % 256>>

\* int.from_bytes(b, "big") of a two-byte sequence
FromBytes2(b) == b[1] * 256 + b[2]

\* Mutant of ChannelId: the slice is taken one byte further, [3:5].
ChannelId_Slice35(c) == FromBytes2(SubSeq(ToBytes6(c), 4, 5))

\* _read_visibilities line 108: bytes [2:4] of the counter, big-endian.
ChannelId(c) == FromBytes2(SubSeq(ToBytes6(c), 3, 4))

\* A complex matrix: its shape and its elements in row-major order, each
\* element a pair (re, im).  The sample values are multiples of 2^4, so that
\* every halving the bounded runs perform is exact.
Cx(re, im) == [re |-> re, im |-> im]
Matrix(shape, data) == [shape |-> shape, data |-> data]
Matrices ==
    { Matrix(<<1, 1>>, <<Cx(16, 0)>>),
      Matrix(<<1, 1>>, <<Cx(0, 32)>>),
      Matrix(<<1, 2>>, <<Cx(16, 16), Cx(48, 0)>>) }

\* The heaps the generator yields, with the items updated by each heap.
VisHeapKinds ==
    { [sos |-> TRUE,  eos |-> FALSE, cnt |-> [hi |-> 0, mid |-> 0, lo |-> 1],
       items |-> [a |-> 1]],
      [sos |-> TRUE,  eos |-> FALSE, cnt |-> [hi |-> 0, mid |-> 0, lo |-> 2],
       items |-> [a |-> 2, b |-> 9]],
      [sos |-> FALSE, eos |-> TRUE,  cnt |-> [hi |-> 0, mid |-> 0, lo |-> 3],
       items |-> [ctrl |-> 0]] }
    \cup
    { [sos |-> FALSE, eos |-> FALSE, cnt |-> c, items |-> [Corre |-> [VIS |-> m]]] :
        c \in { [hi |-> 0, mid |-> 1, lo |-> 0],
                [hi |-> 7, mid |-> 1, lo |-> 5],
                [hi |-> 0, mid |-> 2, lo |-> 0] },
        m \in Matrices }
    \cup
    { [sos |-> FALSE, eos |-> FALSE, cnt |-> [hi |-> 0, mid |-> 1, lo |-> 0],
       items |-> [other |-> 0]] }

VisFiles == UNION { [1..n -> VisHeapKinds] : n \in 0..MaxVisHeaps }

\* averaged_data is a dict: here the sequence of its (key, value) entries in
\* insertion order.
HasKey(d, k) == \E i \in 1..Len(d) : d[i].key = k
IndexOf(d, k) == CHOOSE i \in 1..Len(d) : d[i].key = k
Values(d) == [i \in 1..Len(d) |-> d[i].value]

\* np.array([v, m]) of two arrays of different shapes raises ValueError.
AverageRaises(stored, m) == stored.shape # m.shape

\* Mutant of Average: the sum is not divided by the number of arrays.
Average_Sum(stored, m) ==
    Matrix(stored.shape,
           [i \in 1..Len(stored.data) |->
               Cx(stored.data[i].re + m.data[i].re,
                  stored.data[i].im + m.data[i].im)])

\* np.average(np.array([v, m]), axis=0) of two arrays of one shape.
Average(stored, m) ==
    Matrix(stored.shape,
           [i \in 1..Len(stored.data) |->
               Cx((stored.data[i].re + m.data[i].re) \div 2,
                  (stored.data[i].im + m.data[i].im) \div 2)])

\* Mutant of Accumulate: a later matrix replaces the stored one.
Accumulate_Overwrite(d, k, m) ==
    IF HasKey(d, k)
    THEN IF AverageRaises(d[IndexOf(d, k)].value, m)
         THEN [data |-> d, raised |-> TRUE]
         ELSE [data |-> [d EXCEPT ![IndexOf(d, k)].value = m], raised |-> FALSE]
    ELSE [data |-> Append(d, [key |-> k, value |-> m]), raised |-> FALSE]

\* Mutant of Accumulate: the new matrix is stored before the shapes are
\* compared.
Accumulate_StoreFirst(d, k, m) ==
    IF HasKey(d, k)
    THEN IF AverageRaises(d[IndexOf(d, k)].value, m)
         THEN [data |-> [d EXCEPT ![IndexOf(d, k)].value = m], raised |-> TRUE]
         ELSE [data |-> [d EXCEPT ![IndexOf(d, k)].value = Average(@, m)],
               raised |-> FALSE]
    ELSE [data |-> Append(d, [key |-> k, value |-> m]), raised |-> FALSE]

\* Mutant of Accumulate: an updated channel is moved to the end of the dict.
Accumulate_MoveToEnd(d, k, m) ==
    IF HasKey(d, k)
    THEN IF AverageRaises(d[IndexOf(d, k)].value, m)
         THEN [data |-> d, raised |-> TRUE]
         ELSE [data |-> Append(SelectSeq(d, LAMBDA e : e.key # k),
                               [key |-> k,
                                value |-> Average(d[IndexOf(d, k)].value, m)]),
               raised |-> FALSE]
    ELSE [data |-> Append(d, [key |-> k, value |-> m]), raised |-> FALSE]

\* _read_visibilities lines 111-117: the dict after the statement and whether
\* the statement raised; the assignment does not happen when np.average raises.
Accumulate(d, k, m) ==
    IF HasKey(d, k)
    THEN IF AverageRaises(d[IndexOf(d, k)].value, m)
         THEN [data |-> d, raised |-> TRUE]
         ELSE [data |-> [d EXCEPT ![IndexOf(d, k)].value = Average(@, m)],
               raised |-> FALSE]
    ELSE [data |-> Append(d, [key |-> k, value |-> m]), raised |-> FALSE]

\* np.stack of a list of arrays raises ValueError for an empty list and for
\* arrays of different shapes.
StackRaises(arrays) ==
    \/ arrays = <<>>
    \/ \E i, j \in 1..Len(arrays) : arrays[i].shape # arrays[j].shape

\* The three ways _read_visibilities is exercised: "call" is the call as the
\* code makes it, "body" applies the statements of the loop to the (heap,
\* items) pairs of a capture, "decode" evaluates line 108 on a counter.
VisStart(mode, f, c) ==
    /\ vpc = mode
    /\ vfile = f
    /\ counter = c
    /\ vpos = 0
    /\ headers = <<>>
    /\ averaged_data = <<>>
    /\ vexc = None
    /\ vresult = <<>>
    /\ channel = -1
    /\ vlog = <<>>

VisInit ==
    /\ DevOff
    /\ file = <<>>
    /\ fileExists = FALSE
    /\ impl = "device"
    /\ ReaderIdle
    /\ PollOff
    /\ \/ \E f \in VisFiles : VisStart("call", f, [hi |-> 0, mid |-> 0, lo |-> 0])
       \/ \E f \in VisFiles : VisStart("body", f, [hi |-> 0, mid |-> 0, lo |-> 0])
       \/ \E c \in Counters : VisStart("decode", <<>>, c)

\* _read_visibilities line 96: the for statement asks the async generator
\* returned by spead2_util.read_pcap_file for an iterator.
VisCall ==
    /\ vpc = "call"
    /\ vexc' = "TypeError"
    /\ vpc' = "raised"
    /\ UNCHANGED <<vfile, vpos, headers, averaged_data, vresult, counter, channel, vlog>>
    /\ UNCHANGED <<readerVars, pollVars, devVars>>

\* Mutant of HeaderRows: every heap adds a row.
HeaderRows_EveryHeap(rows, heap) ==
    Append(rows, [key \in DOMAIN heap.items |-> heap.items[key]])

\* _read_visibilities lines 98-103: a start-of-stream heap adds a row.
HeaderRows(rows, heap) ==
    IF heap.sos THEN Append(rows, [key \in DOMAIN heap.items |-> heap.items[key]])
    ELSE rows

\* _read_visibilities lines 97-117: the loop body, applied to the next heap.
LoopBody ==
    /\ vpc = "body"
    /\ vpos < Len(vfile)
    /\ LET heap == vfile[vpos + 1]
           isData == ~heap.sos /\ ~heap.eos
           hasCorre == isData /\ "Corre" \in DOMAIN heap.items
           acc == IF hasCorre
                  THEN Accumulate(averaged_data, ChannelId(heap.cnt), heap.items.Corre.VIS)
                  ELSE [data |-> averaged_data, raised |-> FALSE]
       IN  /\ headers' = HeaderRows(headers, heap)
           /\ counter' = IF isData THEN heap.cnt ELSE counter
           /\ channel' = IF isData THEN ChannelId(heap.cnt) ELSE channel
           /\ averaged_data' = acc.data
           /\ vexc' = IF acc.raised THEN "ValueError" ELSE vexc
           /\ vpc' = IF acc.raised THEN "raised" ELSE vpc
    /\ vpos' = vpos + 1
    /\ vlog' = Append(vlog, [headers |-> headers', averaged_data |-> averaged_data'])
    /\ UNCHANGED <<vfile, vresult>>
    /\ UNCHANGED <<readerVars, pollVars, devVars>>

\* _read_visibilities lines 119-122: the result once the loop has ended.
VisReturn ==
    /\ vpc = "body"
    /\ vpos = Len(vfile)
    /\ IF StackRaises(Values(averaged_data))
       THEN /\ vexc' = "ValueError"
            /\ vpc' = "raised"
            /\ UNCHANGED vresult
       ELSE /\ vresult' = <<[spead_headers |-> DataFrame(headers),
                             spead_data |-> Values(averaged_data)]>>
            /\ vpc' = "returned"
            /\ UNCHANGED vexc
    /\ UNCHANGED <<vfile, vpos, headers, averaged_data, counter, channel, vlog>>
    /\ UNCHANGED <<readerVars, pollVars, devVars>>

\* Line 108 on its own.
Decode ==
    /\ vpc = "decode"
    /\ channel' = ChannelId(counter)
    /\ vpc' = "decoded"
    /\ UNCHANGED <<vfile, vpos, headers, averaged_data, vexc, vresult, counter, vlog>>
    /\ UNCHANGED <<readerVars, pollVars, devVars>>

VisNext ==
    \/ VisCall
    \/ LoopBody
    \/ VisReturn
    \/ Decode

SpecVis == VisInit /\ [][VisNext]_vars

(***************************************************************************)
(* The polling component managers: PcapFileComponentManager (both          *)
(* variants), PcapFileMonitorComponentManager and                          *)
(* PcapFileWatcherComponentManager.  The polling thread runs the callbacks *)
(* of the component manager while it holds the poller's lock and releases  *)
(* the lock only while it waits, so start_communicating and                *)
(* stop_communicating take effect between two polls.                       *)
(***************************************************************************)
DotPcap == <<".", "p", "c", "a", "p">>

\* str.endswith
EndsWith(str, suffix) ==
    /\ Len(str) >= Len(suffix)
    /\ SubSeq(str, Len(str) - Len(suffix) + 1, Len(str)) = suffix

\* os.path.join
Join(dir, name) == dir \o <<"/">> \o name

\* os.listdir(pcap_dir): the names present, in the directory's order.
ListDir(e) == SelectSeq(order, LAMBDA n : e[n] # "absent")

\* os.path.isfile of a path directly inside pcap_dir.
IsFile(e, name) == e[name] = "file"

\* Mutant of Selected: the isfile test is missing.
Selected_NoIsFile(e) ==
    SelectSeq(ListDir(e), LAMBDA n : EndsWith(Join(PcapDir, n), DotPcap))

\* poll of the monitor and of the watcher: the names that pass the test.
Selected(e) ==
    SelectSeq(ListDir(e),
              LAMBDA n : IsFile(e, n) /\ EndsWith(Join(PcapDir, n), DotPcap))

\* What poll returns: file names (monitor) or file paths (watcher).
PollResponse(c, e) ==
    IF c = "Monitor" THEN Selected(e)
    ELSE [i \in 1..Len(Selected(e)) |-> Join(PcapDir, Selected(e)[i])]

\* _update_component_state(**kw): the keys whose value differs from the one
\* held; the callback is called with those keys, if any.
ChangedKeys(cs, kw) == { k \in DOMAIN kw : cs[k] # kw[k] }
Updated(cs, kw) == [k \in DOMAIN cs |-> IF k \in DOMAIN kw THEN kw[k] ELSE cs[k]]

\* The device state that follows from what the component manager reported.
DevState ==
    CASE comm = "DISABLED" -> "DISABLE"
      [] comm = "NOT_ESTABLISHED" -> "UNKNOWN"
      [] OTHER -> IF cstate.fault = "True" THEN "FAULT"
                  ELSE IF cstate.power = "ON" THEN "ON" ELSE "UNKNOWN"

PollInit ==
    /\ VisOff
    /\ DevOff
    /\ file = <<>>
    /\ ReaderIdle
    /\ PollIdle
    /\ \/ comp = "PcapFile" /\ impl \in {"device", "component_manager"}
          /\ fileExists = TRUE /\ order = <<NameA, NameB, NameT, NameD>>
       \/ comp \in {"Monitor", "Watcher"} /\ impl = "device" /\ fileExists = FALSE
          /\ order \in { <<NameA, NameB, NameT, NameD>>, <<NameD, NameT, NameB, NameA>> }

\* The polling thread is waiting: the poller's lock is free.
LockFree == ppc \in {"stopped_wait", "poll_wait"}

\* Mutant of StopPolling: the poller is left polling.
StopPolling_NoOp == pstate' = pstate

\* Poller.stop_polling
StopPolling == pstate' = "STOPPED"

\* Poller.start_polling
StartPolling == pstate' = "POLLING"

StartCommunicating ==
    /\ LockFree
    /\ pstate = "STOPPED"
    /\ dpc \in {"none", "returned", "raised"}
    /\ StartPolling
    /\ afterDelete' = IF afterDelete = "quiet" THEN "restarted" ELSE afterDelete
    /\ UNCHANGED <<comp, ppc, comm, cstate, entries, nested, order, fstat, attrs, dpc,
                   lastPoll, changedSince, polledAfterDelete,
                   stateAtDelete, pollingAtDelete>>
    /\ UNCHANGED <<readerVars, visVars, devVars>>

StopCommunicating ==
    /\ LockFree
    /\ pstate = "POLLING"
    /\ dpc \in {"none", "returned", "raised"}
    /\ StopPolling
    /\ UNCHANGED <<comp, ppc, comm, cstate, entries, nested, order, fstat, attrs, dpc,
                   lastPoll, changedSince, afterDelete, polledAfterDelete,
                   stateAtDelete, pollingAtDelete>>
    /\ UNCHANGED <<readerVars, visVars, devVars>>

\* polling_started: the communication state becomes NOT_ESTABLISHED; the
\* PCAP file and the monitor component managers report power ON, no fault.
PollingStarted ==
    /\ ppc = "stopped_wait"
    /\ pstate = "POLLING"
    /\ comm' = "NOT_ESTABLISHED"
    /\ cstate' = IF comp \in {"PcapFile", "Monitor"}
                 THEN Updated(cstate, [power |-> "ON", fault |-> "False"])
                 ELSE cstate
    /\ ppc' = "polling"
    /\ UNCHANGED <<comp, pstate, entries, nested, order, fstat, attrs, dpc, lastPoll,
                   changedSince, afterDelete, polledAfterDelete,
                   stateAtDelete, pollingAtDelete>>
    /\ UNCHANGED <<readerVars, visVars, devVars>>

\* Mutant of PollEnabled: the next poll does not depend on the poller's state.
PollEnabled_Unlocked == ppc \in {"polling", "poll_wait"}

\* The polling loop polls right after polling_started and after each wait
\* that finds the poller still polling.
PollEnabled == ppc = "polling" \/ (ppc = "poll_wait" /\ pstate = "POLLING")

\* The keyword arguments of the _update_component_state call of poll_succeeded.
SucceededUpdate(c, response) ==
    CASE c = "PcapFile" -> [file_size |-> StSize(response),
                            file_time_modified |-> StMtime(response)]
      [] c = "Monitor" -> [files |-> response]
      [] c = "Watcher" -> [power |-> "ON", fault |-> "False", files |-> response]

\* Mutant of StateAttrs: file_time_modified is not passed on.
StateAttrs_SizeOnly == <<"file_size">>

\* PcapFile._component_state_changed: the state attributes it passes on to
\* _update_attr, in this order.
StateAttrs == <<"file_size", "file_time_modified">>

\* PcapFile._component_state_changed(**state): the attribute values the
\* device holds after it, the change events _update_attr pushed, and the
\* metadata the device holds after it.
DeviceAttrs(state) ==
    [a \in DOMAIN attrs |->
        IF a \in DOMAIN state /\ a \in {StateAttrs[i] : i \in 1..Len(StateAttrs)}
        THEN state[a] ELSE attrs[a]]

Pushed(state) ==
    LET passed == SelectSeq(StateAttrs, LAMBDA a : a \in DOMAIN state)
    IN  [i \in 1..Len(passed) |-> [attr |-> passed[i], value |-> state[passed[i]]]]

DeviceMetadata(state) ==
    IF "metadata" \in DOMAIN state THEN <<state.metadata>> ELSE dev_metadata

\* One poll: get_request, poll and poll_succeeded or poll_failed.
DoPoll ==
    /\ PollEnabled
    /\ LET failed == comp = "PcapFile" /\ ~fileExists
           response == IF comp = "PcapFile" THEN fstat ELSE PollResponse(comp, entries)
           kw == IF failed THEN [power |-> "UNKNOWN", fault |-> "None"]
                 ELSE SucceededUpdate(comp, response)
           state == [k \in ChangedKeys(cstate, kw) |-> kw[k]]
       IN  /\ comm' = IF failed THEN "NOT_ESTABLISHED" ELSE "ESTABLISHED"
           /\ cstate' = Updated(cstate, kw)
           /\ attrs' = IF comp = "PcapFile" THEN DeviceAttrs(state) ELSE attrs
           /\ dev_metadata' = IF comp = "PcapFile" THEN DeviceMetadata(state)
                              ELSE dev_metadata
           /\ lastPoll' = <<[snapshot |-> entries, inner |-> nested,
                             response |-> IF comp = "PcapFile" THEN <<>> ELSE response,
                             before |-> cstate.files,
                             changed |-> ChangedKeys(cstate, kw),
                             failed |-> failed,
                             stat |-> fstat,
                             pushed |-> IF comp = "PcapFile" THEN Pushed(state) ELSE <<>>,
                             metadata_before |-> dev_metadata,
                             metadata_after |-> dev_metadata',
                             incl |-> changedSince.incl, excl |-> changedSince.excl,
                             pstate |-> pstate]>>
    /\ changedSince' = [incl |-> FALSE, excl |-> FALSE]
    /\ polledAfterDelete' = (polledAfterDelete \/ dpc = "returned")
    /\ ppc' = "poll_wait"
    /\ UNCHANGED <<comp, pstate, entries, nested, order, fstat, dpc, afterDelete,
                   stateAtDelete, pollingAtDelete>>
    /\ UNCHANGED <<file, fileExists, impl, caller, pc, visitors, hasEvent, abort_event,
                   pos, heap_number, v, stream, exc, result, finished_count, events,
                   dev_fault, calls, abortAt, metaAtStart, faultAtStart, lastCompleted>>
    /\ UNCHANGED <<visVars, devVars>>

\* polling_stopped: power UNKNOWN is reported and the communication state
\* becomes DISABLED.
PollingStopped ==
    /\ ppc = "poll_wait"
    /\ pstate = "STOPPED"
    /\ cstate' = Updated(cstate, [power |-> "UNKNOWN", fault |-> "None"])
    /\ comm' = "DISABLED"
    /\ ppc' = "stopped_wait"
    /\ UNCHANGED <<comp, pstate, entries, nested, order, fstat, attrs, dpc, lastPoll,
                   changedSince, afterDelete, polledAfterDelete,
                   stateAtDelete, pollingAtDelete>>
    /\ UNCHANGED <<readerVars, visVars, devVars>>

\* The reader's variables but fileExists.
readerRest == <<file, impl, caller, pc, visitors, hasEvent, abort_event, pos,
                heap_number, v, stream, exc, result, finished_count, events,
                dev_metadata, dev_fault, calls, abortAt, metaAtStart,
                faultAtStart, lastCompleted>>

\* pcap_file_device.py delete(): stop_communicating comes first.
DeviceDeleteStop ==
    /\ comp = "PcapFile"
    /\ impl = "device"
    /\ dpc = "none"
    /\ LockFree
    /\ StopPolling
    /\ dpc' = "unlink"
    /\ UNCHANGED <<comp, ppc, comm, cstate, entries, nested, order, fstat, attrs,
                   lastPoll, changedSince, afterDelete, polledAfterDelete>>
    /\ stateAtDelete' = DevState
    /\ pollingAtDelete' = (pstate = "POLLING")
    /\ UNCHANGED <<readerVars, visVars, devVars>>

\* Mutant of DeviceDeleteUnlink: the communication is not started again
\* when unlink raises.
DeviceDeleteUnlink_NoRestart ==
    /\ dpc = "unlink"
    /\ \E ok \in BOOLEAN :
          IF fileExists /\ ok
          THEN /\ fileExists' = FALSE
               /\ dpc' = "returned"
               /\ afterDelete' = "quiet"
               /\ UNCHANGED pstate
          ELSE /\ dpc' = "raised"
               /\ UNCHANGED <<pstate, fileExists, afterDelete>>
    /\ UNCHANGED <<comp, ppc, comm, cstate, entries, nested, order, fstat, attrs,
                   lastPoll, changedSince, polledAfterDelete,
                   stateAtDelete, pollingAtDelete>>
    /\ UNCHANGED <<readerRest, visVars, devVars>>

\* pcap_file_device.py delete(): unlink; when it raises, start_communicating
\* and the error goes to the caller.
DeviceDeleteUnlink ==
    /\ dpc = "unlink"
    /\ \E ok \in BOOLEAN :
          IF fileExists /\ ok
          THEN /\ fileExists' = FALSE
               /\ dpc' = "returned"
               /\ afterDelete' = "quiet"
               /\ UNCHANGED pstate
          ELSE /\ LockFree
               /\ StartPolling
               /\ dpc' = "raised"
               /\ UNCHANGED <<fileExists, afterDelete>>
    /\ UNCHANGED <<comp, ppc, comm, cstate, entries, nested, order, fstat, attrs,
                   lastPoll, changedSince, polledAfterDelete,
                   stateAtDelete, pollingAtDelete>>
    /\ UNCHANGED <<readerRest, visVars, devVars>>

\* pcap_file_component_manager.py delete(): os.remove comes first; when it
\* raises, the error goes to the caller.
ManagerDeleteRemove ==
    /\ comp = "PcapFile"
    /\ impl = "component_manager"
    /\ dpc = "none"
    /\ \E ok \in BOOLEAN :
          IF fileExists /\ ok
          THEN fileExists' = FALSE /\ dpc' = "stop"
          ELSE dpc' = "raised" /\ UNCHANGED fileExists
    /\ UNCHANGED <<comp, pstate, ppc, comm, cstate, entries, nested, order, fstat, attrs,
                   lastPoll, changedSince, afterDelete, polledAfterDelete>>
    /\ stateAtDelete' = DevState
    /\ pollingAtDelete' = (pstate = "POLLING")
    /\ UNCHANGED <<readerRest, visVars, devVars>>

\* pcap_file_component_manager.py delete(): stop_communicating.
ManagerDeleteStop ==
    /\ dpc = "stop"
    /\ LockFree
    /\ StopPolling
    /\ dpc' = "returned"
    /\ afterDelete' = "quiet"
    /\ UNCHANGED <<comp, ppc, comm, cstate, entries, nested, order, fstat, attrs,
                   lastPoll, changedSince, polledAfterDelete,
                   stateAtDelete, pollingAtDelete>>
    /\ UNCHANGED <<readerVars, visVars, devVars>>

\* What happens to the files while the component manager runs.
KindOf(name) == IF name = NameD THEN "dir" ELSE "file"
Included(name) == name \in {NameA, NameB}
Noted(name) ==
    [incl |-> changedSince.incl \/ Included(name),
     excl |-> changedSince.excl \/ ~Included(name)]

CreateEntry(name) ==
    /\ comp \in {"Monitor", "Watcher"}
    /\ entries[name] = "absent"
    /\ entries' = [entries EXCEPT ![name] = KindOf(name)]
    /\ changedSince' = Noted(name)
    /\ UNCHANGED <<comp, pstate, ppc, comm, cstate, nested, order, fstat, attrs, dpc,
                   lastPoll, afterDelete, polledAfterDelete,
                   stateAtDelete, pollingAtDelete>>
    /\ UNCHANGED <<readerVars, visVars, devVars>>

RemoveEntry(name) ==
    /\ comp \in {"Monitor", "Watcher"}
    /\ entries[name] # "absent"
    /\ entries' = [entries EXCEPT ![name] = "absent"]
    /\ nested' = IF name = NameD THEN FALSE ELSE nested
    /\ changedSince' = Noted(name)
    /\ UNCHANGED <<comp, pstate, ppc, comm, cstate, order, fstat, attrs, dpc,
                   lastPoll, afterDelete, polledAfterDelete,
                   stateAtDelete, pollingAtDelete>>
    /\ UNCHANGED <<readerVars, visVars, devVars>>

\* A .pcap file is created in, or removed from, the subdirectory.
ToggleNested ==
    /\ comp \in {"Monitor", "Watcher"}
    /\ entries[NameD] = "dir"
    /\ nested' = ~nested
    /\ changedSince' = Noted(NameC)
    /\ UNCHANGED <<comp, pstate, ppc, comm, cstate, entries, order, fstat, attrs, dpc,
                   lastPoll, afterDelete, polledAfterDelete,
                   stateAtDelete, pollingAtDelete>>
    /\ UNCHANGED <<readerVars, visVars, devVars>>

\* The PCAP file is written to.
ModifyFile ==
    /\ comp = "PcapFile"
    /\ fileExists
    /\ \E s \in Stats \ {fstat} : fstat' = s
    /\ UNCHANGED <<comp, pstate, ppc, comm, cstate, entries, nested, order, attrs, dpc,
                   lastPoll, changedSince, afterDelete, polledAfterDelete,
                   stateAtDelete, pollingAtDelete>>
    /\ UNCHANGED <<readerVars, visVars, devVars>>

\* The PCAP file is removed by someone else.
ExternalRemove ==
    /\ comp = "PcapFile"
    /\ fileExists
    /\ dpc = "none"
    /\ fileExists' = FALSE
    /\ UNCHANGED pollVars
    /\ UNCHANGED <<readerRest, visVars, devVars>>

PollNext ==
    \/ StartCommunicating
    \/ StopCommunicating
    \/ PollingStarted
    \/ DoPoll
    \/ PollingStopped
    \/ DeviceDeleteStop
    \/ DeviceDeleteUnlink
    \/ ManagerDeleteRemove
    \/ ManagerDeleteStop
    \/ \E name \in Names : CreateEntry(name)
    \/ \E name \in Names : RemoveEntry(name)
    \/ ToggleNested
    \/ ModifyFile
    \/ ExternalRemove

SpecPoll == PollInit /\ [][PollNext]_vars

(***************************************************************************)
(* The PcapFile device with its file polled while loads run and the file   *)
(* is written to.                                                          *)
(***************************************************************************)
MaxWritten == 1

FileInit ==
    /\ PollInit
    /\ comp = "PcapFile"
    /\ impl = "device"

\* A heap is written to the PCAP file between two loads.
FileWrite ==
    /\ comp = "PcapFile"
    /\ fileExists
    /\ BetweenLoads
    /\ Len(file) < MaxWritten
    /\ \E kind \in HeapKinds : file' = Capture([i \in 1..Len(file) + 1 |->
                                   IF i <= Len(file) THEN file[i] ELSE kind])
    /\ \E s \in Stats : StSize(s) > StSize(fstat) /\ fstat' = s
    /\ UNCHANGED <<comp, pstate, ppc, comm, cstate, entries, nested, order, attrs, dpc,
                   lastPoll, changedSince, afterDelete, polledAfterDelete,
                   stateAtDelete, pollingAtDelete>>
    /\ UNCHANGED <<fileExists, impl, caller, pc, visitors, hasEvent, abort_event,
                   pos, heap_number, v, stream, exc, result, finished_count, events,
                   dev_metadata, dev_fault, calls, abortAt, metaAtStart,
                   faultAtStart, lastCompleted>>
    /\ UNCHANGED <<visVars, devVars>>

FileNext ==
    \/ StartCommunicating
    \/ StopCommunicating
    \/ PollingStarted
    \/ DoPoll
    \/ PollingStopped
    \/ ModifyFile
    \/ ExternalRemove
    \/ FileWrite
    \/ StartLoad
    \/ Open
    \/ NextHeap
    \/ Dispatch
    \/ AfterLoop
    \/ LoadCheck
    \/ LoadExcept

SpecFile == FileInit /\ [][FileNext]_vars

(***************************************************************************)
(* PcapFileMonitor: the PcapFile devices it creates and deletes as the     *)
(* `files` component state changes.                                        *)
(***************************************************************************)
NameUpperA == <<"A", ".", "p", "c", "a", "p">>
MonNames == {NameA, NameUpperA, NameB}

\* str.lower on the letters the names are made of.
LowerChar(c) ==
    CASE c = "A" -> "a"
      [] c = "B" -> "b"
      [] c = "P" -> "p"
      [] OTHER -> c
Lower(name) == [i \in 1..Len(name) |-> LowerChar(name[i])]

\* _get_dev_name
DevPrefix == <<"t", "e", "s", "t", "/", "p", "c", "a", "p", "-", "f", "i", "l", "e", "/">>
GetDevName(file_name) == DevPrefix \o Lower(file_name)

\* _is_device_defined
IsDeviceDefined(devs, dev_name) == \E d \in devs : d.dev = dev_name

\* _create_pcap_file_device; create_device raises for the names in failing.
CreatePcapFileDevice(devs, file_name, failing) ==
    IF IsDeviceDefined(devs, GetDevName(file_name)) THEN devs
    ELSE IF file_name \in failing THEN devs
    ELSE devs \cup {[dev |-> GetDevName(file_name), file |-> file_name]}

\* _delete_pcap_file_device; delete_device raises for the names in failing.
DeletePcapFileDevice(devs, file_name, failing) ==
    IF ~IsDeviceDefined(devs, GetDevName(file_name)) THEN devs
    ELSE IF file_name \in failing THEN devs
    ELSE { d \in devs : d.dev # GetDevName(file_name) }

RECURSIVE CreateAll(_, _, _)
CreateAll(devs, added, failing) ==
    IF added = <<>> THEN devs
    ELSE CreateAll(CreatePcapFileDevice(devs, Head(added), failing), Tail(added), failing)

RECURSIVE DeleteAll(_, _, _)
DeleteAll(devs, removed, failing) ==
    IF removed = <<>> THEN devs
    ELSE DeleteAll(DeletePcapFileDevice(devs, Head(removed), failing), Tail(removed), failing)

In(seq, x) == \E i \in 1..Len(seq) : seq[i] = x

\* The lists of distinct names of a set: what a listing of a directory can
\* report.
FileSeqs(names) ==
    { fl \in UNION { [1..n -> names] : n \in 0..Cardinality(names) } :
        \A i, j \in 1..Len(fl) : i # j => fl[i] # fl[j] }
FileLists == FileSeqs(MonNames)

\* _process_file_changes
ProcessFileChanges(devs, old, files, failCreate, failDelete) ==
    LET added == SelectSeq(files, LAMBDA f : ~In(old, f))
        removed == SelectSeq(old, LAMBDA f : ~In(files, f))
    IN  DeleteAll(CreateAll(devs, added, failCreate), removed, failDelete)

\* PcapFileMonitor._component_state_changed(files=...): the component
\* manager reports the list when it differs from the one it holds.
MonitorFilesChanged ==
    \E files \in FileLists :
        /\ files # mon_files
        /\ \E failCreate \in SUBSET { f \in MonNames : In(files, f) /\ ~In(mon_files, f) },
              failDelete \in SUBSET { f \in MonNames : In(mon_files, f) /\ ~In(files, f) } :
              /\ devices' = ProcessFileChanges(devices, mon_files, files,
                                               failCreate, failDelete)
              /\ monLast' = <<[before |-> mon_files, failed |-> failCreate \cup failDelete]>>
        /\ mon_files' = files
    /\ UNCHANGED <<readerVars, visVars, pollVars, rdrVars, cmdVars>>

MonInit ==
    /\ VisOff
    /\ PollOff
    /\ DevOff
    /\ file = <<>>
    /\ fileExists = FALSE
    /\ impl = "device"
    /\ ReaderIdle

MonNext == MonitorFilesChanged

SpecMonitor == MonInit /\ [][MonNext]_vars

(***************************************************************************)
(* PcapReader: init_device on the device thread, on_any_event on the file  *)
(* observer's thread, ReadVisibilityData tasks on the executor; a handler  *)
(* takes one step per lock it takes and per call it makes outside a lock.  *)
(***************************************************************************)
MaxQueue == 1
MaxTasks == 1

nonRdrVars == <<readerVars, visVars, pollVars, monVars, cmdVars>>

MappedFiles(mapping) == { mapping[i].file : i \in 1..Len(mapping) }
PrefixOf(mapping, file_name) ==
    mapping[CHOOSE i \in 1..Len(mapping) : mapping[i].file = file_name].attr_prefix

\* json.dumps of the size and mtime of a stat result.
InfoJson(file_info) == <<"size", StSize(file_info), "mtime", StMtime(file_info)>>

\* read_visibilities: the fake visibilities in test mode; without test mode
\* _read_visibilities, which iterates over an asynchronous generator.
ReadVisibilities(mode) ==
    IF mode = "TEST"
    THEN [raised |-> None, headers |-> "col1=[1,2],col2=[3,4]", spead_data |-> "zeros((2,2))"]
    ELSE [raised |-> "TypeError", headers |-> None, spead_data |-> None]

\* _encode_dataframe, _encode_ndarray and CustomJsonEncoder
EncodeDataframe(df) == "base64(pickle(" \o df \o "))"
EncodeNdarray(array) == "base64(npy(" \o array \o "))"
VisibilityJson(contents) ==
    <<"headers", EncodeDataframe(contents.headers),
      "averaged_data", EncodeNdarray(contents.spead_data)>>

\* Mutant of ReadDynamicAttr: the stored value is never returned.
ReadDynamicAttr_Invalid(data, attr_name) == [value |-> <<>>, quality |-> "ATTR_INVALID"]

\* read_dynamic_attr, given _dynamic_attr_data
ReadDynamicAttr(data, attr_name) ==
    IF data[attr_name] # Absent
    THEN [value |-> data[attr_name], quality |-> "ATTR_VALID"]
    ELSE [value |-> <<>>, quality |-> "ATTR_INVALID"]

\* Mutant of Rglob: the directory is not searched recursively.
Rglob_TopLevel(d) ==
    { n \in RdrNames : d[n] # 0 /\ EndsWith(n, DotPcap) /\ \A i \in 1..Len(n) : n[i] # "/" }

\* pcap_dir_path.rglob('*.pcap'), relative to pcap_dir
Rglob(d) == { n \in RdrNames : d[n] # 0 /\ EndsWith(n, DotPcap) }

RdrInit ==
    /\ VisOff
    /\ PollOff
    /\ MonOff
    /\ CmdOff
    /\ file = <<>>
    /\ fileExists = FALSE
    /\ impl = "device"
    /\ ReaderIdle
    /\ disk \in [RdrNames -> {0, 1}]
    /\ test_mode \in {"NONE", "TEST"}
    /\ rphase = "new"
    /\ RdrIdle

\* The push_change_event calls of a handler, in order.
Push(th, attr, value) == [th EXCEPT !.pushes = Append(@, [attr |-> attr, value |-> value])]

\* A handler returns or raises: init_device goes on with its loop or fails;
\* an event handler ends.
Done(th, raised) ==
    IF th.op = "init"
    THEN [th EXCEPT !.pc = IF raised = None THEN "next" ELSE "failed", !.raised = raised]
    ELSE [th EXCEPT !.pc = "end", !.raised = raised]

\* init_device: rglob('*.pcap') lists what is on disk, in some order.
InitDevice ==
    /\ rphase = "new"
    /\ rphase' = "init"
    /\ \E listing \in FileSeqs(RdrNames) :
          /\ { listing[i] : i \in 1..Len(listing) } = Rglob(disk)
          /\ scan' = listing
    /\ thr' = [thr EXCEPT !["device"] = [IdleThread EXCEPT !.op = "init", !.pc = "next"]]
    /\ atInit' = <<[disk |-> disk, changed |-> {}]>>
    /\ UNCHANGED <<disk, test_mode, observing, queue, file_name_mapping, dyn_attrs,
                   dynamic_attr_data, tasks>>
    /\ UNCHANGED nonRdrVars

\* init_device: the next file of the loop, or what follows it: the observer
\* is started, or left alone when it is alive already; an observer that ran
\* and is alive no more cannot be started again (RuntimeError).
InitLoop ==
    /\ rphase \in {"init", "reinit"}
    /\ thr["device"].pc = "next"
    /\ IF scan = <<>>
       THEN /\ observing' = (rphase = "init" \/ observing)
            /\ rphase' = IF rphase = "init" \/ observing THEN "on" ELSE "failed"
            /\ thr' = [thr EXCEPT !["device"] = IdleThread]
            /\ atInit' = <<>>
            /\ UNCHANGED scan
       ELSE /\ thr' = [thr EXCEPT !["device"] =
                          [@ EXCEPT !.file = Head(scan), !.pc = "sync_present"]]
            /\ scan' = Tail(scan)
            /\ UNCHANGED <<observing, rphase, atInit>>
    /\ UNCHANGED <<disk, test_mode, queue, file_name_mapping, dyn_attrs,
                   dynamic_attr_data, tasks>>
    /\ UNCHANGED nonRdrVars

\* init_device raised: the device is not initialised, the observer not started.
InitFailed ==
    /\ rphase \in {"init", "reinit"}
    /\ thr["device"].pc = "failed"
    /\ rphase' = "failed"
    /\ thr' = [thr EXCEPT !["device"] = IdleThread]
    /\ UNCHANGED <<disk, test_mode, scan, observing, queue, file_name_mapping, dyn_attrs,
                   dynamic_attr_data, tasks, atInit>>
    /\ UNCHANGED nonRdrVars

\* _sync_file_present: the part under the lock.
SyncFilePresent(t) ==
    /\ thr[t].pc = "sync_present"
    /\ LET th == thr[t]
           fresh == Append(file_name_mapping,
                           [file |-> th.file, attr_prefix |-> AttrKey(th.file)])
       IN  IF th.file \in MappedFiles(file_name_mapping)
           THEN /\ thr' = [thr EXCEPT ![t] =
                              [th EXCEPT !.attr_prefix = PrefixOf(file_name_mapping, th.file),
                                         !.pc = "add_data"]]
                /\ UNCHANGED file_name_mapping
           ELSE /\ file_name_mapping' = fresh
                /\ thr' = [thr EXCEPT ![t] =
                              [Push(th, <<"file_name_mapping">>, fresh)
                                 EXCEPT !.attr_prefix = AttrKey(th.file), !.pc = "add_data"]]
    /\ UNCHANGED <<disk, test_mode, rphase, scan, observing, queue, dyn_attrs,
                   dynamic_attr_data, tasks, atInit>>
    /\ UNCHANGED nonRdrVars

\* _sync_file_present: one round of the loop over the suffixes.
AddAttribute(t) ==
    /\ thr[t].pc \in {"add_data", "add_info"}
    /\ LET th == thr[t]
           attr_suffix == IF th.pc = "add_data" THEN Suffixes[1] ELSE Suffixes[2]
       IN  /\ dyn_attrs' = dyn_attrs \cup {AttrName(th.attr_prefix, attr_suffix)}
           /\ thr' = [thr EXCEPT ![t] =
                         [th EXCEPT !.pc = IF th.pc = "add_data" THEN "add_info" ELSE "stat"]]
    /\ UNCHANGED <<disk, test_mode, rphase, scan, observing, queue, file_name_mapping,
                   dynamic_attr_data, tasks, atInit>>
    /\ UNCHANGED nonRdrVars

\* _update_file_info: stat()
StatFile(t) ==
    /\ thr[t].pc = "stat"
    /\ LET th == thr[t]
       IN  thr' = [thr EXCEPT ![t] =
                      IF disk[th.file] = 0
                      THEN Done(th, "FileNotFoundError")
                      ELSE [th EXCEPT !.file_info = disk[th.file], !.pc = "store_info"]]
    /\ UNCHANGED <<disk, test_mode, rphase, scan, observing, queue, file_name_mapping,
                   dyn_attrs, dynamic_attr_data, tasks, atInit>>
    /\ UNCHANGED nonRdrVars

\* _update_file_info: the part under the lock.
StoreInfo(t) ==
    /\ thr[t].pc = "store_info"
    /\ LET th == thr[t]
           attr_name == AttrName(PrefixOf(file_name_mapping, th.file), "info")
           attr_value == InfoJson(th.file_info)
       IN  IF th.file \notin MappedFiles(file_name_mapping)
           THEN /\ thr' = [thr EXCEPT ![t] = Done(th, "KeyError")]
                /\ UNCHANGED dynamic_attr_data
           ELSE /\ dynamic_attr_data' = [dynamic_attr_data EXCEPT ![attr_name] = attr_value]
                /\ thr' = [thr EXCEPT ![t] =
                              IF attr_name \in dyn_attrs
                              THEN Done(Push(th, attr_name, attr_value), None)
                              ELSE Done(th, "DevFailed")]
    /\ UNCHANGED <<disk, test_mode, rphase, scan, observing, queue, file_name_mapping,
                   dyn_attrs, tasks, atInit>>
    /\ UNCHANGED nonRdrVars

\* Mutant of SyncFileAbsent: the dynamic attributes and their data stay.
SyncFileAbsent_KeepAttrs(t) ==
    /\ thr[t].pc = "sync_absent"
    /\ LET th == thr[t]
           rest == SelectSeq(file_name_mapping, LAMBDA m : m.file # th.file)
       IN  IF th.file \notin MappedFiles(file_name_mapping)
           THEN /\ thr' = [thr EXCEPT ![t] = Done(th, None)]
                /\ UNCHANGED file_name_mapping
           ELSE /\ file_name_mapping' = rest
                /\ thr' = [thr EXCEPT ![t] =
                              Done(Push(th, <<"file_name_mapping">>, rest), None)]
    /\ UNCHANGED <<disk, test_mode, rphase, scan, observing, queue, tasks, atInit,
                   dyn_attrs, dynamic_attr_data>>
    /\ UNCHANGED nonRdrVars

\* _sync_file_absent, all of it under the lock.
SyncFileAbsent(t) ==
    /\ thr[t].pc = "sync_absent"
    /\ LET th == thr[t]
           attr_prefix == PrefixOf(file_name_mapping, th.file)
           rest == SelectSeq(file_name_mapping, LAMBDA m : m.file # th.file)
           gone == { AttrName(attr_prefix, Suffixes[i]) : i \in 1..Len(Suffixes) } \cap dyn_attrs
       IN  IF th.file \notin MappedFiles(file_name_mapping)
           THEN /\ thr' = [thr EXCEPT ![t] = Done(th, None)]
                /\ UNCHANGED <<file_name_mapping, dyn_attrs, dynamic_attr_data>>
           ELSE /\ file_name_mapping' = rest
                /\ dyn_attrs' = dyn_attrs \ gone
                /\ dynamic_attr_data' =
                      [a \in AllAttrNames |-> IF a \in gone THEN Absent
                                              ELSE dynamic_attr_data[a]]
                /\ thr' = [thr EXCEPT ![t] =
                              Done(Push(th, <<"file_name_mapping">>, rest), None)]
    /\ UNCHANGED <<disk, test_mode, rphase, scan, observing, queue, tasks, atInit>>
    /\ UNCHANGED nonRdrVars

\* on_any_event: the observer's thread takes the next event.
OnAnyEvent ==
    /\ observing
    /\ thr["observer"].op = "idle"
    /\ queue # <<>>
    /\ LET event == Head(queue)
       IN  thr' = [thr EXCEPT !["observer"] =
                      [IdleThread EXCEPT
                          !.op = "event",
                          !.etype = event.event_type,
                          !.file = event.file,
                          !.before = file_name_mapping,
                          !.pc = IF ~EndsWith(event.file, DotPcap) THEN "end"
                                 ELSE CASE event.event_type = "created" -> "sync_present"
                                        [] event.event_type = "modified" -> "stat"
                                        [] event.event_type = "deleted" -> "sync_absent"
                                        [] OTHER -> "end"]]
    /\ queue' = Tail(queue)
    /\ UNCHANGED <<disk, test_mode, rphase, scan, observing, file_name_mapping, dyn_attrs,
                   dynamic_attr_data, tasks, atInit>>
    /\ UNCHANGED nonRdrVars

\* on_any_event returns or raises into the observer's dispatch loop, which
\* may or may not survive an exception.
EventHandled ==
    /\ thr["observer"].pc = "end"
    /\ IF thr["observer"].raised = None THEN UNCHANGED observing
       ELSE observing' \in BOOLEAN
    /\ thr' = [thr EXCEPT !["observer"] = IdleThread]
    /\ UNCHANGED <<disk, test_mode, rphase, scan, queue, file_name_mapping, dyn_attrs,
                   dynamic_attr_data, tasks, atInit>>
    /\ UNCHANGED nonRdrVars

\* A change of pcap_dir: the observer, when alive, queues the event; a change
\* during init_device is noted.
FileChange(name, stat, event_type) ==
    /\ rphase \in {"init", "on", "reinit"}
    /\ observing => Len(queue) < MaxQueue
    /\ disk' = [disk EXCEPT ![name] = stat]
    /\ queue' = IF observing
                THEN Append(queue, [event_type |-> event_type, file |-> name])
                ELSE queue
    /\ atInit' = IF rphase = "init"
                 THEN <<[atInit[1] EXCEPT !.changed = @ \cup {name}]>>
                 ELSE atInit
    /\ UNCHANGED <<test_mode, rphase, scan, thr, observing, file_name_mapping, dyn_attrs,
                   dynamic_attr_data, tasks>>
    /\ UNCHANGED nonRdrVars

CreateFile(name) == disk[name] = 0 /\ FileChange(name, 1, "created")
WriteFile(name) == disk[name] # 0 /\ FileChange(name, 3 - disk[name], "modified")
DeleteFile(name) == disk[name] # 0 /\ FileChange(name, 0, "deleted")

\* The ReadVisibilityData command.
ReadVisibilityData(file_name) ==
    /\ rphase = "on"
    /\ Len(tasks) < MaxTasks
    /\ IF file_name \notin MappedFiles(file_name_mapping)
       THEN UNCHANGED tasks
       ELSE /\ tasks' = Append(tasks,
                  [file |-> file_name,
                   attr |-> AttrName(PrefixOf(file_name_mapping, file_name), "data"),
                   pc |-> "running", result |-> <<>>, pushes |-> <<>>])
    /\ UNCHANGED <<disk, test_mode, rphase, scan, thr, observing, queue, file_name_mapping,
                   dyn_attrs, dynamic_attr_data, atInit>>
    /\ UNCHANGED nonRdrVars

\* The executor runs read_visibilities.
TaskRun ==
    /\ tasks # <<>>
    /\ tasks[1].pc = "running"
    /\ tasks' = [tasks EXCEPT ![1] = [@ EXCEPT !.result = <<ReadVisibilities(test_mode)>>,
                                               !.pc = "callback"]]
    /\ UNCHANGED <<disk, test_mode, rphase, scan, thr, observing, queue, file_name_mapping,
                   dyn_attrs, dynamic_attr_data, atInit>>
    /\ UNCHANGED nonRdrVars

\* _on_visibility_data up to push_change_event, which raises for an
\* attribute the device does not have.
OnVisibilityDataPush ==
    /\ tasks # <<>>
    /\ tasks[1].pc = "callback"
    /\ LET task == tasks[1]
       IN  IF task.result[1].raised # None
           THEN tasks' = Tail(tasks)
           ELSE IF task.attr \notin dyn_attrs
           THEN tasks' = Tail(tasks)
           ELSE tasks' = [tasks EXCEPT ![1] =
                    [@ EXCEPT !.pc = "store",
                              !.pushes = <<[attr |-> task.attr,
                                            value |-> VisibilityJson(task.result[1]),
                                            quality |-> "ATTR_VALID"]>>]]
    /\ UNCHANGED <<disk, test_mode, rphase, scan, thr, observing, queue, file_name_mapping,
                   dyn_attrs, dynamic_attr_data, atInit>>
    /\ UNCHANGED nonRdrVars

\* _on_visibility_data: the value is stored under the lock.
OnVisibilityDataStore ==
    /\ tasks # <<>>
    /\ tasks[1].pc = "store"
    /\ LET task == tasks[1]
       IN  dynamic_attr_data' =
              [dynamic_attr_data EXCEPT ![task.attr] = VisibilityJson(task.result[1])]
    /\ tasks' = Tail(tasks)
    /\ UNCHANGED <<disk, test_mode, rphase, scan, thr, observing, queue, file_name_mapping,
                   dyn_attrs, atInit>>
    /\ UNCHANGED nonRdrVars

RdrNext ==
    \/ InitDevice
    \/ InitLoop
    \/ InitFailed
    \/ \E t \in {"device", "observer"} : SyncFilePresent(t)
    \/ \E t \in {"device", "observer"} : AddAttribute(t)
    \/ \E t \in {"device", "observer"} : StatFile(t)
    \/ \E t \in {"device", "observer"} : StoreInfo(t)
    \/ SyncFileAbsent("observer")
    \/ OnAnyEvent
    \/ EventHandled
    \/ \E name \in RdrNames : CreateFile(name)
    \/ \E name \in RdrNames : WriteFile(name)
    \/ \E name \in RdrNames : DeleteFile(name)
    \/ \E name \in RdrNames : ReadVisibilityData(name)
    \/ TaskRun
    \/ OnVisibilityDataPush
    \/ OnVisibilityDataStore

SpecRdr == RdrInit /\ [][RdrNext]_vars

(***************************************************************************)
(* PcapReader, init_device called again on a device that is on: the file   *)
(* observer is alive and handles events on its thread while the device     *)
(* thread runs the loop of init_device.                                    *)
(***************************************************************************)
ReInitDevice ==
    /\ rphase = "on"
    /\ observing
    /\ tasks = <<>>
    /\ rphase' = "reinit"
    /\ \E listing \in FileSeqs(RdrNames) :
          /\ { listing[i] : i \in 1..Len(listing) } = Rglob(disk)
          /\ scan' = listing
    /\ thr' = [thr EXCEPT !["device"] = [IdleThread EXCEPT !.op = "init", !.pc = "next"]]
    /\ UNCHANGED <<disk, test_mode, observing, queue, file_name_mapping, dyn_attrs,
                   dynamic_attr_data, tasks, atInit>>
    /\ UNCHANGED nonRdrVars

ReinitNext ==
    \/ InitDevice
    \/ ReInitDevice
    \/ InitLoop
    \/ InitFailed
    \/ \E t \in {"device", "observer"} : SyncFilePresent(t)
    \/ \E t \in {"device", "observer"} : AddAttribute(t)
    \/ \E t \in {"device", "observer"} : StatFile(t)
    \/ \E t \in {"device", "observer"} : StoreInfo(t)
    \/ SyncFileAbsent("observer")
    \/ OnAnyEvent
    \/ EventHandled
    \/ \E name \in RdrNames : CreateFile(name)
    \/ \E name \in RdrNames : DeleteFile(name)

\* No visibility data is read, so the test mode does not matter.
ReinitInit == RdrInit /\ test_mode = "NONE"

SpecReinit == ReinitInit /\ [][ReinitNext]_vars

(***************************************************************************)
(* PcapFileComponentManager.load and _submit_task: threads submit _load    *)
(* tasks to the TaskExecutor, whose one worker takes them off its input    *)
(* queue; a call reads the queue size and then decides.                    *)
(***************************************************************************)
MaxQueueSize == 2

nonSubVars == <<readerVars, visVars, pollVars, monVars, rdrVars, unpVars, cmd_last>>

SubInit ==
    /\ VisOff
    /\ PollOff
    /\ MonOff
    /\ RdrOff
    /\ UnpOff
    /\ cmd_last = <<>>
    /\ file = <<>>
    /\ fileExists = FALSE
    /\ impl \in {"device", "component_manager"}
    /\ ReaderIdle
    /\ max_queue_size \in 1..MaxQueueSize
    /\ work_queue = 0
    /\ running = FALSE
    /\ loaders = [t \in Loaders |-> IdleLoader]

\* load -> _submit_task: input_queue_size = get_input_queue_size()
SubmitTaskRead(t) ==
    /\ loaders[t].pc = "idle"
    /\ loaders' = [loaders EXCEPT ![t] =
                      [pc |-> "read", input_queue_size |-> work_queue, ret |-> None]]
    /\ UNCHANGED <<max_queue_size, work_queue, running>>
    /\ UNCHANGED nonSubVars

\* _submit_task: the comparison, then submit(...) or the REJECTED tuple
SubmitTaskDecide(t) ==
    /\ loaders[t].pc = "read"
    /\ IF loaders[t].input_queue_size < max_queue_size
          THEN /\ work_queue' = work_queue + 1
               /\ loaders' = [loaders EXCEPT ![t].pc = "idle", ![t].ret = "QUEUED"]
          ELSE /\ work_queue' = work_queue
               /\ loaders' = [loaders EXCEPT ![t].pc = "idle", ![t].ret = "REJECTED"]
    /\ UNCHANGED <<max_queue_size, running>>
    /\ UNCHANGED nonSubVars

\* The worker takes the next task off the input queue.
WorkerTake ==
    /\ ~running
    /\ work_queue > 0
    /\ work_queue' = work_queue - 1
    /\ running' = TRUE
    /\ UNCHANGED <<max_queue_size, loaders>>
    /\ UNCHANGED nonSubVars

\* _load returns.
WorkerDone ==
    /\ running
    /\ running' = FALSE
    /\ UNCHANGED <<max_queue_size, work_queue, loaders>>
    /\ UNCHANGED nonSubVars

SubNext ==
    \/ \E t \in Loaders : SubmitTaskRead(t)
    \/ \E t \in Loaders : SubmitTaskDecide(t)
    \/ WorkerTake
    \/ WorkerDone

SpecSubmit == SubInit /\ [][SubNext]_vars

(***************************************************************************)
(* VisSpeadUnpacker: Unpack and the _unpack tasks run on one asyncio event *)
(* loop; a task gives the loop back while process_pcap_file runs in the    *)
(* executor, and stores the metadata and adds the attribute without        *)
(* interruption once it has returned.                                      *)
(***************************************************************************)
MaxUnpacks == 3

nonUnpVars == <<readerVars, visVars, pollVars, monVars, rdrVars, subVars, cmd_last>>

\* pcap_dir: a capture with two start-of-stream heaps, an empty capture and
\* a name there is no file for.
UnpackDir ==
    [f \in UnpackNames |->
        IF f = NameB THEN <<Capture(<<>>)>>
        ELSE IF f = NameA
        THEN <<Capture(<<[sos |-> TRUE,  eos |-> FALSE, ok |-> TRUE, items |-> [a |-> 1]],
                         [sos |-> TRUE,  eos |-> FALSE, ok |-> TRUE, items |-> [a |-> 2, b |-> 9]],
                         [sos |-> FALSE, eos |-> FALSE, ok |-> TRUE, items |-> [Corre |-> 5]]>>)>>
        ELSE <<>>]

\* ExtractVisibilityMetadata after process_pcap_file went through a capture:
\* one row per start-of-stream heap, in file order.
RECURSIVE VisibilityMetadataRows(_, _)
VisibilityMetadataRows(capture, n) ==
    IF n = 0 THEN <<>>
    ELSE LET rest == VisibilityMetadataRows(capture, n - 1)
             heap == capture[n]
         IN  IF VisitorMethod(heap) = "visit_start_of_stream_heap"
             THEN Append(rest, [key \in DOMAIN heap.items |-> heap.items[key]])
             ELSE rest

\* process_pcap_file(file_path, visitor) and visitor.metadata
ProcessPcapFile(file_name) ==
    IF UnpackDir[file_name] = <<>>
    THEN [raised |-> "FileNotFoundError", metadata |-> <<>>]
    ELSE [raised |-> None,
          metadata |-> <<DataFrame(VisibilityMetadataRows(UnpackDir[file_name][1],
                                                          Len(UnpackDir[file_name][1])))>>]

\* attr_name.removesuffix("_metadata")
RemoveSuffix(attr_name) == SubSeq(attr_name, 1, Len(attr_name) - 1)

\* metadata_read
MetadataRead(metadata, attr_name) ==
    LET key == RemoveSuffix(attr_name)
    IN  IF metadata[key] = <<>>
        THEN [raised |-> "KeyError", value |-> <<>>]
        ELSE [raised |-> None, value |-> <<ToJson(metadata[key][1])>>]

UnpInit ==
    /\ VisOff
    /\ PollOff
    /\ MonOff
    /\ RdrOff
    /\ SubOff
    /\ cmd_last = <<>>
    /\ file = <<>>
    /\ fileExists = FALSE
    /\ impl = "device"
    /\ ReaderIdle
    /\ UnpOff

\* The Unpack command.
Unpack(file_name) ==
    LET file_hash == FileHash(file_name)
    IN  /\ IF unp_metadata[file_hash] # <<>>
           THEN /\ unp_hist' = [unp_hist EXCEPT ![file_name].ids = @ \cup {file_hash}]
                /\ UNCHANGED unp_tasks
           ELSE /\ unp_hist[file_name].started < MaxUnpacks
                /\ unp_tasks' = [unp_tasks EXCEPT ![file_name] = @ + 1]
                /\ unp_hist' = [unp_hist EXCEPT ![file_name].ids = @ \cup {file_hash},
                                                ![file_name].started = @ + 1]
        /\ UNCHANGED <<unp_metadata, unp_attrs>>
        /\ UNCHANGED nonUnpVars

\* _unpack after the await: process_pcap_file has returned or raised.
UnpackResume(file_name) ==
    LET file_hash == FileHash(file_name)
        outcome == ProcessPcapFile(file_name)
    IN  /\ unp_tasks[file_name] > 0
        /\ unp_tasks' = [unp_tasks EXCEPT ![file_name] = @ - 1]
        /\ IF outcome.raised # None
           THEN UNCHANGED <<unp_metadata, unp_attrs, unp_hist>>
           ELSE /\ unp_metadata' = [unp_metadata EXCEPT ![file_hash] = outcome.metadata]
                /\ unp_attrs' = unp_attrs \cup {file_hash \o <<"_metadata">>}
                /\ unp_hist' = [unp_hist EXCEPT ![file_name].added = @ + 1]
        /\ UNCHANGED nonUnpVars

UnpNext ==
    \/ \E f \in UnpackNames : Unpack(f)
    \/ \E f \in UnpackNames : UnpackResume(f)

SpecUnpack == UnpInit /\ [][UnpNext]_vars

(***************************************************************************)
(* The on, standby, off and reset operations of the polling component      *)
(* managers, called at any moment while the component manager polls or     *)
(* not.                                                                    *)
(***************************************************************************)
StandardOps == {"on", "standby", "off", "reset"}

\* Mutant of Unsupported: the rejection is reported to task_callback too.
Unsupported_Reports(cs, op, task_callback) ==
    [ret |-> <<"REJECTED", "Command not supported">>,
     callback_calls |-> IF task_callback THEN <<[status |-> "REJECTED"]>> ELSE <<>>,
     state |-> cs]

\* on / standby / off / reset: what is returned, the calls made to
\* task_callback and the component state afterwards.
Unsupported(cs, op, task_callback) ==
    [ret |-> <<"REJECTED", "Command not supported">>,
     callback_calls |-> <<>>,
     state |-> cs]

StandardCommand ==
    /\ comp # None
    /\ \E op \in StandardOps, task_callback \in BOOLEAN :
          LET r == Unsupported(cstate, op, task_callback)
          IN  /\ cstate' = r.state
              /\ cmd_last' = <<[op |-> op, task_callback |-> task_callback,
                                ret |-> r.ret, callback_calls |-> r.callback_calls]>>
    /\ UNCHANGED <<comp, pstate, ppc, comm, entries, nested, order, fstat, attrs, dpc,
                   lastPoll, changedSince, afterDelete, polledAfterDelete,
                   stateAtDelete, pollingAtDelete>>
    /\ UNCHANGED <<readerVars, visVars, monVars, rdrVars, subVars, unpVars>>

CmdNext ==
    \/ StartCommunicating
    \/ StopCommunicating
    \/ PollingStarted
    \/ DoPoll
    \/ PollingStopped
    \/ \E name \in Names : CreateEntry(name)
    \/ ModifyFile
    \/ ExternalRemove
    \/ StandardCommand

SpecCmd == PollInit /\ [][CmdNext]_vars

(***************************************************************************)
(* Vocabulary of the properties.                                           *)
(***************************************************************************)
CountOf(f, P(_)) == Cardinality({ i \in 1..Len(f) : P(f[i]) })
IsSos(h) == h.sos
IsEos(h) == h.eos
IsData(h) == ~h.sos /\ ~h.eos

\* The heaps a visitor received, in the order it received them.
Seen(i) == [n \in 1..Len(calls[i]) |-> calls[i][n].heap]

\* read_pcap_file ran to the exhaustion of the stream.
FullScan == pc \in {"done", "load_check"} /\ caller \in {"load", "direct"} /\ finished_count # -1
\* read_pcap_file returned because it saw the abort event set.
AbortObserved == pc \in {"done", "load_check"} /\ result = "returned" /\ finished_count = -1

TerminalStatuses == {"COMPLETED", "ABORTED", "FAILED"}
Statuses == SelectSeq(events, LAMBDA e : e \in TerminalStatuses \cup {"IN_PROGRESS"})
Updates == SelectSeq(events, LAMBDA e : e \notin TerminalStatuses \cup {"IN_PROGRESS"})
LoadDone == pc = "done" /\ caller = "load"
LoadStatus == Statuses[Len(Statuses)]

\* C1: after a full scan with one visitor over a capture whose heaps are k1
\* start-of-stream, k2 data and k3 end-of-stream heaps (k1+k2+k3 = N), the
\* visitor's three counters are k1, k2 and k3 and it was called N times.
C1_DispatchCounts ==
    LET k1 == CountOf(file, IsSos)
        k2 == CountOf(file, IsData)
        k3 == CountOf(file, IsEos)
    IN  (/\ pc = "done" /\ caller = "direct" /\ FullScan
         /\ Len(visitors) = 1
         /\ k1 + k2 + k3 = Len(file))
        => /\ visitors[1].start_of_stream_heap_count = k1
           /\ visitors[1].data_heap_count = k2
           /\ visitors[1].end_of_stream_heap_count = k3
           /\ Len(calls[1]) = Len(file)

C1_Witness ==
    /\ pc = "done" /\ caller = "direct" /\ FullScan
    /\ Len(visitors) = 1
    /\ visitors[1].start_of_stream_heap_count = 1
    /\ visitors[1].data_heap_count = 1
    /\ visitors[1].end_of_stream_heap_count = 1

\* C2: what a visitor has seen is always a prefix of the capture's heap
\* sequence, in file order and without gap or repetition, and it is the whole
\* sequence once the scan ran to exhaustion.
C2_FileOrder ==
    caller \in {"load", "direct"} =>
        \A i \in 1..Len(calls) :
            /\ Len(calls[i]) <= Len(file)
            /\ Seen(i) = SubSeq(file, 1, Len(calls[i]))
            /\ FullScan => Len(calls[i]) = Len(file)

C2_Witness ==
    /\ pc = "done" /\ caller = "direct" /\ FullScan
    /\ Len(visitors) = 2
    /\ Len(calls[2]) = MaxHeaps

\* C3: a heap goes to the visitors in list order and to all of them before
\* any visitor gets the next heap; a read that returns, by exhaustion or by
\* an observed abort, has handed every visitor the same heaps, wherever the
\* abort event was set.
C3_AllVisitorsPerHeap ==
    caller \in {"load", "direct"} =>
        /\ \A i, j \in 1..Len(calls) :
              i < j => /\ Len(calls[j]) <= Len(calls[i])
                       /\ Len(calls[i]) <= Len(calls[j]) + 1
        /\ pc = "dispatch" =>
              \A i \in 1..Len(calls) :
                  Len(calls[i]) = IF i < v THEN pos ELSE pos - 1
        /\ (pc \in {"next", "after_loop", "load_check", "done"} /\ exc = None) =>
              \A i \in 1..Len(calls) : Len(calls[i]) = Len(calls[1])

C3_Witness ==
    /\ pc = "done" /\ caller = "direct" /\ AbortObserved
    /\ Len(visitors) = 2
    /\ abortAt.set /\ ~abortAt.boundary
    /\ Len(calls[1]) >= 1
    /\ Len(calls[2]) = Len(calls[1])

\* C4: when the abort event is set between the dispatch of heap k and the
\* examination of heap k+1 (0 <= k < N), exactly k heaps are dispatched, the
\* stream is stopped and the load reports ABORTED.
C4_AbortAtBoundary ==
    (/\ pc = "done" /\ caller \in {"load", "direct"}
     /\ abortAt.set /\ abortAt.boundary /\ abortAt.k < Len(file))
    => /\ \A i \in 1..Len(calls) : Len(calls[i]) = abortAt.k
       /\ stream = "stopped"
       /\ result = "returned"
       /\ caller = "load" => /\ LoadStatus = "ABORTED"
                             /\ visitors[1].heap_count = abortAt.k

C4_Witness ==
    /\ LoadDone
    /\ abortAt.set /\ abortAt.boundary /\ abortAt.k = 1
    /\ Len(file) = MaxHeaps
    /\ LoadStatus = "ABORTED"

\* C5: the stream a read opened is stopped when the read ends by exhaustion,
\* by an observed abort or by an error of the transport library, in
\* spead.read_pcap_file and in spead2_util.read_pcap_file alike.
C5_StreamStoppedOnEveryExit ==
    (pc = "done" /\ result \in {"returned", "closed", "DecodeError"})
    => stream = "stopped"

\* C6: when a visitor raises, the caller of read_pcap_file gets that
\* exception, no heap is dispatched after it, and the stream has been stopped.
C6_VisitorErrorPropagates ==
    (pc = "done" /\ caller = "direct" /\ exc = "VisitorError")
    => /\ result = "VisitorError"
       /\ \A i \in 1..Len(calls) : Len(calls[i]) <= pos
       /\ stream = "stopped"

\* C7: a load reports IN_PROGRESS first and then exactly one terminal status:
\* none while it runs, one when it has ended, never two.
C7_OneTerminalStatus ==
    (caller = "load" /\ pc # "idle") =>
        /\ Len(Statuses) >= 1
        /\ Statuses[1] = "IN_PROGRESS"
        /\ \A n \in 2..Len(Statuses) : Statuses[n] \in TerminalStatuses
        /\ Len(Statuses) = IF pc = "done" THEN 2 ELSE 1

C7_Witness ==
    /\ LoadDone
    /\ abort_event
    /\ Statuses = <<"IN_PROGRESS", "FAILED">>

\* C8: a load reports COMPLETED and publishes its metadata whenever the
\* capture was exhausted, and ABORTED only when the abort was observed before
\* the last heap was dispatched.
C8_CompletedOnExhaustion ==
    LoadDone =>
        /\ FullScan => /\ LoadStatus = "COMPLETED"
                       /\ dev_metadata = <<Metadata(visitors[1])>>
        /\ LoadStatus = "ABORTED" => /\ AbortObserved
                                     /\ Len(calls[1]) < Len(file)

\* C9: a load that ends ABORTED makes no component-state update; the
\* device's metadata is what it was when the load started.
C9_AbortedPublishesNothing ==
    (LoadDone /\ LoadStatus = "ABORTED") =>
        /\ Updates = <<>>
        /\ dev_metadata = metaAtStart

C9_Witness ==
    /\ LoadDone /\ LoadStatus = "ABORTED"
    /\ metaAtStart # <<>>
    /\ visitors[1].heap_count > 0
    /\ <<Metadata(visitors[1])>> # metaAtStart

\* C10: after a load that reports COMPLETED the published heap_count is the
\* number of heaps of the file and spead_headers has one row per
\* start-of-stream heap.
C10_CompletedMetadata ==
    (LoadDone /\ LoadStatus = "COMPLETED") =>
        /\ dev_metadata # <<>>
        /\ dev_metadata[1].heap_count = Len(file)
        /\ Len(dev_metadata[1].spead_headers.rows) = CountOf(file, IsSos)

C10_Witness ==
    /\ LoadDone /\ LoadStatus = "COMPLETED"
    /\ dev_metadata[1].heap_count = MaxHeaps
    /\ Len(dev_metadata[1].spead_headers.rows) = 2
    /\ CountOf(file, IsData) = 1

\* The item mappings of the start-of-stream heaps of f, in the order of f.
SosRows(f) ==
    LET s == SelectSeq(f, IsSos)
    IN  [i \in 1..Len(s) |-> s[i].items]

\* C11: at every point of a load the rows collected by _ExtractMetadata are
\* the item mappings of the start-of-stream heaps among the heaps dispatched
\* so far, one row per such heap, in file order: row i is the mapping of the
\* i-th start-of-stream heap, a repeated mapping is kept, and data and
\* end-of-stream heaps add no row.
C11_HeaderRowsInArrivalOrder ==
    (caller = "load" /\ pc # "idle") =>
        /\ Len(calls[1]) <= Len(file)
        /\ visitors[1].headers = SosRows(SubSeq(file, 1, Len(calls[1])))

C11_Witness ==
    /\ LoadDone
    /\ Len(file) = MaxHeaps
    /\ Len(calls[1]) = MaxHeaps
    /\ IsSos(file[1]) /\ IsData(file[2]) /\ IsSos(file[3])
    /\ file[1].items # file[3].items
    /\ visitors[1].headers = <<file[1].items, file[3].items>>

\* C17: a load of the file that follows a completed load of the same,
\* unchanged file, and that reads the file to its end without the abort event
\* set, reports COMPLETED and leaves the published metadata (heap_count and
\* header rows) equal to those of the earlier load, with no fault.
C17_ReloadPublishesSame ==
    (LoadDone /\ metaAtStart # <<>> /\ FullScan /\ ~abort_event) =>
        /\ LoadStatus = "COMPLETED"
        /\ dev_metadata = metaAtStart
        /\ dev_metadata = <<Metadata(visitors[1])>>
        /\ ~dev_fault

\* Arithmetic on a counter held as limbs: c div 2^16 and c mod 2^16.
Div65536(c) == [hi |-> 0, mid |-> c.hi, lo |-> c.mid]
Mod65536(c) == c.lo

\* C12: the channel id decoded from a heap counter c, 0 <= c < 2^48, is
\* (c div 2^16) mod 2^16, and every counter with the same bits 16..31 decodes
\* to the same channel id whatever its bits 0..15 and 32..47 are.
C12_ChannelIdBits ==
    channel # -1 =>
        /\ channel = Mod65536(Div65536(counter))
        /\ \A c \in Counters : c.mid = counter.mid => ChannelId(c) = channel

C12_Witness ==
    /\ vpc = "decoded"
    /\ counter = [hi |-> 65535, mid |-> 256, lo |-> 255]
    /\ channel = 256

\* The loop state before the i-th heap was processed.
Before(i) == IF i = 1 THEN <<>> ELSE vlog[i - 1].averaged_data
After(i) == vlog[i].averaged_data
\* The i-th heap is a data heap carrying a Corre item.
Carries(f, i) == ~f[i].sos /\ ~f[i].eos /\ "Corre" \in DOMAIN f[i].items
ChannelOf(h) == h.cnt.mid
MatrixOf(h) == h.items.Corre.VIS
\* r is the elementwise (a + b) / 2.
IsHalfSum(r, a, b) ==
    /\ r.shape = a.shape
    /\ Len(r.data) = Len(a.data)
    /\ \A i \in 1..Len(a.data) :
          /\ 2 * r.data[i].re = a.data[i].re + b.data[i].re
          /\ 2 * r.data[i].im = a.data[i].im + b.data[i].im

MatricesOf(f, n, k) ==
    LET idx == SelectSeq([i \in 1..n |-> i],
                         LAMBDA i : Carries(f, i) /\ ChannelOf(f[i]) = k)
    IN  [j \in 1..Len(idx) |-> MatrixOf(f[idx[j]])]

RECURSIVE Pow2(_)
Pow2(n) == IF n = 0 THEN 1 ELSE 2 * Pow2(n - 1)

\* Sum over j of w[j] * x[j].
RECURSIVE Dot(_, _, _)
Dot(w, x, n) == IF n = 0 THEN 0 ELSE Dot(w, x, n - 1) + w[n] * x[n]

\* value * scale = sum of weight[j] * ms[j], elementwise.
IsWeighted(value, scale, weight, ms) ==
    \A i \in 1..Len(value.data) :
        /\ scale * value.data[i].re
              = Dot(weight, [j \in 1..Len(ms) |-> ms[j].data[i].re], Len(ms))
        /\ scale * value.data[i].im
              = Dot(weight, [j \in 1..Len(ms) |-> ms[j].data[i].im], Len(ms))

Mismatch(i) ==
    /\ Carries(vfile, i)
    /\ HasKey(Before(i), ChannelOf(vfile[i]))
    /\ Before(i)[IndexOf(Before(i), ChannelOf(vfile[i]))].value.shape
          # MatrixOf(vfile[i]).shape

RECURSIVE FirstSeen(_, _)
FirstSeen(f, n) ==
    IF n = 0 THEN <<>>
    ELSE LET r == FirstSeen(f, n - 1)
         IN  IF Carries(f, n) /\ ~(\E j \in 1..Len(r) : r[j] = ChannelOf(f[n]))
             THEN Append(r, ChannelOf(f[n]))
             ELSE r

Range(seq) == { seq[i] : i \in 1..Len(seq) }

C20_NoFilesChangeOffline ==
    /\ (lastPoll # <<>> /\ "files" \in lastPoll[1].changed) => lastPoll[1].pstate = "POLLING"
    /\ comp \in {"Monitor", "Watcher"} =>
          cstate.files = IF lastPoll = <<>> THEN <<>> ELSE lastPoll[1].response

C20_Witness ==
    /\ comp = "Monitor"
    /\ pstate = "STOPPED"
    /\ ppc = "stopped_wait"
    /\ comm = "DISABLED"
    /\ lastPoll # <<>>
    /\ lastPoll[1].response = <<>>
    /\ changedSince.incl
    /\ entries[NameA] = "file"
    /\ cstate.files = <<>>

\* C28: every heap handed to a visitor reaches it through one call of one
\* visit method: visit_start_of_stream_heap when is_start_of_stream() holds
\* (also when is_end_of_stream() holds as well), visit_end_of_stream_heap when
\* only is_end_of_stream() holds, visit_data_heap when neither holds.
C28_OneCallbackPerHeap ==
    caller \in {"load", "direct"} =>
        \A i \in 1..Len(calls) :
            /\ Len(calls[i]) <= Len(file)
            /\ \A n \in 1..Len(calls[i]) :
                  /\ calls[i][n].heap = file[n]
                  /\ calls[i][n].method =
                        (CASE file[n].sos -> "visit_start_of_stream_heap"
                           [] ~file[n].sos /\ file[n].eos -> "visit_end_of_stream_heap"
                           [] OTHER -> "visit_data_heap")

C28_Witness ==
    /\ pc = "done" /\ caller = "direct" /\ FullScan
    /\ Len(visitors) = 2
    /\ Len(file) = 2
    /\ file[1].sos /\ file[1].eos
    /\ ~file[2].sos /\ file[2].eos
    /\ calls[2][1].method = "visit_start_of_stream_heap"
    /\ calls[2][2].method = "visit_end_of_stream_heap"
    /\ visitors[2].start_of_stream_heap_count = 1
    /\ visitors[2].end_of_stream_heap_count = 1
    /\ visitors[2].data_heap_count = 0

\* C29: when the reader has run to the exhaustion of the capture, the count
\* of its 'Finished reading' message is the number of heaps of the capture,
\* in spead.read_pcap_file and in spead2_util.read_pcap_file, the empty
\* capture included.
C29_FinishedCountIsHeapCount ==
    finished_count # -1 =>
        /\ pos = Len(file)
        /\ finished_count = Len(file)

\* What a client reads from the two metadata attributes when the device
\* holds the given metadata.
ReadsOf(metadata) ==
    IF metadata = <<>>
    THEN [heap_count |-> [raised |-> "ValueError: Metadata not available", value |-> <<>>],
          spead_headers |-> [raised |-> "ValueError: Metadata not available", value |-> <<>>]]
    ELSE [heap_count |-> [raised |-> None, value |-> <<metadata[1].heap_count>>],
          spead_headers |-> [raised |-> None,
                             value |-> <<ToJson(metadata[1].spead_headers)>>]]

\* C30: a load that ends FAILED has reported the exception and leaves the
\* fault flag true and the metadata as it was when the load began, so that
\* the attributes read as before; a load that ends COMPLETED leaves the fault
\* flag false and the metadata extracted by that load.
C30_FailedLoadKeepsMetadata ==
    LoadDone =>
        /\ LoadStatus = "FAILED" =>
              /\ exc # None
              /\ "FAILED" \in {events[i] : i \in 1..Len(events)}
              /\ dev_fault
              /\ dev_metadata = metaAtStart
              /\ ReadHeapCount = ReadsOf(metaAtStart).heap_count
              /\ ReadSpeadHeaders = ReadsOf(metaAtStart).spead_headers
        /\ LoadStatus = "COMPLETED" =>
              /\ ~dev_fault
              /\ dev_metadata = <<Metadata(visitors[1])>>

\* A load completes on a device that held metadata and was in fault, that
\* is, after a successful and then a failed load, and replaces the metadata.
C30_Witness ==
    /\ LoadDone
    /\ LoadStatus = "COMPLETED"
    /\ faultAtStart
    /\ metaAtStart # <<>>
    /\ dev_metadata # metaAtStart
    /\ ~dev_fault

\* C22: while no load has completed, reading heap_count and reading
\* spead_headers raise ValueError('Metadata not available'); once a load has
\* completed, they return the heap count and the JSON form of the header
\* table of the most recently completed load.
C22_MetadataReads ==
    /\ ReadHeapCount = ReadsOf(lastCompleted).heap_count
    /\ ReadSpeadHeaders = ReadsOf(lastCompleted).spead_headers

\* A second load has completed, with zero heaps, after one with heaps.
C22_Witness ==
    /\ LoadDone
    /\ LoadStatus = "COMPLETED"
    /\ metaAtStart # <<>>
    /\ lastCompleted # metaAtStart
    /\ ReadHeapCount.value = <<Len(file)>>
    /\ Len(file) > 1

\* C21: after a successful poll of the PCAP file the device's file_size and
\* file_time_modified are the st_size and st_mtime_ns that poll returned; the
\* poll pushed a change event with the new value for each of the two that
\* was part of its component-state update, and for no other; the device's
\* metadata after the update is the metadata it held before it.
C21_FileAttributesFollowPoll ==
    (comp = "PcapFile" /\ lastPoll # <<>>) =>
        LET p == lastPoll[1]
            polled == [file_size |-> StSize(p.stat),
                       file_time_modified |-> StMtime(p.stat)]
        IN  /\ ~p.failed => attrs = polled
            /\ ~p.failed =>
                  \A a \in DOMAIN polled :
                      a \in p.changed <=>
                          \E i \in 1..Len(p.pushed) :
                              p.pushed[i] = [attr |-> a, value |-> polled[a]]
            /\ p.failed => p.pushed = <<>>
            /\ Len(p.pushed) <= 2
            /\ p.metadata_after = p.metadata_before

\* A poll of a file that was loaded and then written to without a change of
\* its size: one change event, for file_time_modified.
C21_Witness ==
    /\ comp = "PcapFile"
    /\ lastPoll # <<>>
    /\ ~lastPoll[1].failed
    /\ lastPoll[1].metadata_before # <<>>
    /\ lastPoll[1].metadata_before[1].heap_count = 1
    /\ lastPoll[1].pushed = <<[attr |-> "file_time_modified", value |-> StMtime(fstat)]>>
    /\ attrs.file_size = 1
    /\ attrs.file_time_modified = 3
    /\ dev_metadata = lastPoll[1].metadata_before

\* Delete was called on a device in state ON, the file was or is being
\* removed by it, and nobody has started the communication again.
DeletingFromOn ==
    /\ stateAtDelete = "ON"
    /\ dpc \in {"unlink", "stop", "returned"}
    /\ afterDelete # "restarted"

\* C27: from the call of Delete on a device that is ON until the device is
\* DISABLE, no poll fails on the missing file, and the device reports no
\* fault, no state other than ON or DISABLE and no communication status
\* NOT_ESTABLISHED.
C27_DeleteGoesStraightToDisable ==
    DeletingFromOn =>
        /\ lastPoll # <<>> /\ ~lastPoll[1].failed
        /\ DevState \in {"ON", "DISABLE"}
        /\ cstate.fault # "True"
        /\ comm # "NOT_ESTABLISHED"

\* A PcapFile device is defined for the file: one whose pcap_file_path
\* names it.
HasDevice(file_name) == \E d \in devices : d.file = file_name

\* C26: after each `files` update the PcapFileMonitor has processed, a
\* PcapFile device is defined for every file name in `files` and for no file
\* name absent from it.
C26_OneDevicePerFile ==
    \A f \in MonNames : In(mon_files, f) <=> HasDevice(f)

IsPcap(file_name) == EndsWith(file_name, DotPcap)
DataAttr(file_name) == AttrName(AttrKey(file_name), "data")
InfoAttr(file_name) == AttrName(AttrKey(file_name), "info")

\* init_device has gone through every file rglob listed; what is left of it
\* is the start of the observer.
InitScanned == rphase = "init" /\ thr["device"].pc = "next" /\ scan = <<>>

MappingPushes(pushes) == SelectSeq(pushes, LAMBDA e : e.attr = <<"file_name_mapping">>)

\* What must hold when on_any_event has handled the event of handler th.
EventPost(th, mapping, present, data, present0, data0) ==
    /\ (IsPcap(th.file) /\ th.etype = "created") =>
          /\ th.file \in MappedFiles(mapping)
          /\ {DataAttr(th.file), InfoAttr(th.file)} \subseteq present
    /\ (IsPcap(th.file) /\ th.etype = "deleted") =>
          /\ th.file \notin MappedFiles(mapping)
          /\ {DataAttr(th.file), InfoAttr(th.file)} \cap present = {}
          /\ data[DataAttr(th.file)] = Absent
          /\ data[InfoAttr(th.file)] = Absent
    /\ MappingPushes(th.pushes) =
          IF mapping # th.before
          THEN <<[attr |-> <<"file_name_mapping">>, value |-> mapping]>>
          ELSE <<>>
    /\ ~IsPcap(th.file) =>
          /\ mapping = th.before
          /\ present = present0
          /\ data = data0
          /\ th.pushes = <<>>

\* C24: in the step in which on_any_event has handled an event: after
\* CREATED for a .pcap file, the file is a key of file_name_mapping and both
\* its dynamic attributes exist; after DELETED, it is not a key, neither
\* attribute exists and no data is stored for them; the handler pushed one
\* file_name_mapping change event carrying the new mapping if it changed the
\* mapping and none otherwise; an event for a file that is not a .pcap file
\* changes nothing.
C24_EventsTracked ==
    [][ (thr["observer"].pc # "end" /\ thr'["observer"].pc = "end") =>
            EventPost(thr'["observer"], file_name_mapping', dyn_attrs',
                      dynamic_attr_data', dyn_attrs, dynamic_attr_data) ]_vars

\* A DELETED event for a mapped file has been handled.
C24_Witness ==
    /\ thr["observer"].pc = "end"
    /\ thr["observer"].etype = "deleted"
    /\ thr["observer"].file = NameNested
    /\ NameNested \in MappedFiles(thr["observer"].before)
    /\ Len(thr["observer"].before) = 2
    /\ Len(file_name_mapping) = 1
    /\ thr["observer"].pushes = <<[attr |-> <<"file_name_mapping">>, value |-> file_name_mapping]>>
    /\ DataAttr(NameNested) \notin dyn_attrs

\* The done-callback of the oldest task ends in this step.
CallbackEnds == tasks # <<>> /\ tasks[1].pc \in {"callback", "store"} /\ tasks' = Tail(tasks)

Decides(t) == loaders[t].pc = "read" /\ loaders'[t].pc = "idle"

\* C31, first part: load() returns REJECTED and submits nothing when the
\* queue size it read is max_queue_size or more, and submits the task
\* otherwise.
C31_RejectsWhenFull ==
    [][\A t \in Loaders :
          Decides(t) =>
              IF loaders[t].input_queue_size >= max_queue_size
                THEN loaders'[t].ret = "REJECTED" /\ work_queue' = work_queue
                ELSE loaders'[t].ret = "QUEUED" /\ work_queue' = work_queue + 1]_vars

\* C31: the executor's input queue never holds more than max_queue_size
\* tasks, also when load() is called from several threads at once.
C31_QueueNeverExceedsMax == work_queue <= max_queue_size

\* Neither init_device nor on_any_event is running.
NoHandler == thr["device"].op = "idle" /\ thr["observer"].op = "idle"

MappedAttrNames ==
    { AttrName(file_name_mapping[i].attr_prefix, x) :
          i \in 1..Len(file_name_mapping), x \in {"data", "info"} }

\* C33: every key of _dynamic_attr_data names an attribute of a file that
\* is in file_name_mapping, also when a ReadVisibilityData task ends after
\* the file's DELETED event was handled.
C33_DataOnlyForMappedFiles ==
    \A a \in AllAttrNames : dynamic_attr_data[a] # Absent => a \in MappedAttrNames

\* C34: Unpack returns the same identifier for a file name every time, at
\* most one unpack task is started and the metadata attribute added at most
\* once per file name, and reading an attribute that exists finds metadata.
C34_OneUnpackPerFile ==
    /\ \A f \in UnpackNames :
          /\ unp_hist[f].ids \subseteq {FileHash(f)}
          /\ unp_hist[f].started <= 1
          /\ unp_hist[f].added <= 1
    /\ \A a \in unp_attrs : MetadataRead(unp_metadata, a).raised = None

\* C34, the part about a second call during the first task: the attribute
\* of a file name is added at most once.
C34_AttributeAddedOnce == \A f \in UnpackNames : unp_hist[f].added <= 1

\* C34, the parts that do not count tasks: one identifier per file name,
\* and metadata for every attribute that exists.
C34_IdentifierAndRead ==
    /\ \A f \in UnpackNames : unp_hist[f].ids \subseteq {FileHash(f)}
    /\ \A a \in unp_attrs : MetadataRead(unp_metadata, a).raised = None

\* No heap of the capture is a data heap with a Corre item.
NoCorre(f) == \A i \in 1..Len(f) : ~Carries(f, i)
VisEnded == vpc \in {"raised", "returned"}

\* C35: _read_visibilities returns a VisibilityData for a capture without
\* any data heap that carries a Corre item: the headers of its
\* start-of-stream heaps and an empty averaged data.
C35_ReturnsWithoutCorre ==
    VisEnded /\ NoCorre(vfile) =>
        /\ vpc = "returned"
        /\ vresult = <<[spead_headers |-> DataFrame(SosRows(vfile)), spead_data |-> <<>>]>>

\* C35 for the statements after the loop alone: once the loop has gone
\* through a capture without a Corre item, a result is returned.
C35_LoopReturnsWithoutCorre ==
    vpos = Len(vfile) /\ VisEnded /\ NoCorre(vfile) /\ vexc # "TypeError" => vpc = "returned"

HeadersBefore(i) == IF i = 1 THEN <<>> ELSE vlog[i - 1].headers

DeleteFails == dpc # "raised" /\ dpc' = "raised" /\ fileExists

HandlingChange ==
    /\ thr["observer"].op = "event"
    /\ thr["observer"].etype \in {"created", "modified"}
    /\ EndsWith(thr["observer"].file, DotPcap)

\* C38: on_any_event does not raise for a CREATED or MODIFIED event of a
\* .pcap file, whether or not the file is in file_name_mapping and whether
\* or not it is still on disk when its info is read.
C38_ChangeEventsDoNotRaise == HandlingChange => thr["observer"].raised = None

\* C38 for a MODIFIED event alone: when the handler has ended,
\* file_name_mapping is what it was when the event was taken.
C38_ModifiedKeepsMapping ==
    (HandlingChange /\ thr["observer"].etype = "modified" /\ thr["observer"].pc = "end")
        => file_name_mapping = thr["observer"].before

\* C39: a call of on, standby, off or reset on a component manager returns
\* (REJECTED, 'Command not supported'), makes no call to task_callback and
\* leaves the component state, the communication state and the poller as
\* they are, whatever the state of the component manager.
C39_UnsupportedCommandsRejected ==
    [][cmd_last' # cmd_last =>
          /\ cmd_last'[1].ret = <<"REJECTED", "Command not supported">>
          /\ cmd_last'[1].callback_calls = <<>>
          /\ UNCHANGED <<cstate, comm, pstate, ppc, attrs>>]_vars

\* reset was called with a task callback on a watcher that is polling and
\* has reported a file.
C39_Witness ==
    /\ cmd_last # <<>>
    /\ cmd_last[1].op = "reset"
    /\ cmd_last[1].task_callback
    /\ comp = "Watcher"
    /\ pstate = "POLLING"
    /\ cstate.power = "ON"
    /\ cstate.files # <<>>

====
